---- MODULE Spec2Model ----
(***************************************************************************)
(* Verification model of the storefront provisioning server:               *)
(*   - the repository publisher (ensureRepoAndPush / pushFiles), run by    *)
(*     concurrent requests against one GitHub repository and branch;       *)
(*   - the request gatekeeper (assertAuthorized and the event handler).    *)
(* Every await on fetch is one step of a publisher; the GitHub server is   *)
(* the shared state the steps read and write.                              *)
(***************************************************************************)
EXTENDS Integers, Sequences, FiniteSets, TLC

(***************************************************************************)
(* Bounds and input universes                                              *)
(***************************************************************************)
MaxFiles == 2

\* the clock stops here
MaxNow == 2400

\* decisions of the rate limiter observed in one behaviour
MaxRequests == 4

\* length of the lists given to mergeFiles
MaxMerge == 2

\* files of a FileSet handed to applyBranding
MaxBrandFiles == 2

Procs == {"p1", "p2"}

FilePaths == {"uno.config.ts", "public/favicon.ico", "app.vue"}

AllPaths == FilePaths \cup {"README.md"}

\* the encoding the resolver gives a file: base64 for the binary extensions
EncodingOf(path) == IF path = "public/favicon.ico" THEN "base64" ELSE "utf-8"

\* TemplateFile { path, content, encoding }
TemplateFile ==
  {f \in [path : FilePaths, content : {1}, encoding : {"utf-8", "base64"}] :
     f.encoding = EncodingOf(f.path)}

\* the paths in the order of the template's directory listing
PathOrder == <<"app.vue", "public/favicon.ico", "uno.config.ts">>

PathIndex(path) == CHOOSE i \in 1..Len(PathOrder) : PathOrder[i] = path

\* listed in path order, which also makes the paths unique
InPathOrder(fs) ==
  \A i, j \in 1..Len(fs) : i < j => PathIndex(fs[i].path) < PathIndex(fs[j].path)

\* the FileSets handed to the publisher: non-empty, path-unique, in listing order
FileSets ==
  {fs \in UNION {[1..n -> TemplateFile] : n \in 1..MaxFiles} : InPathOrder(fs)}

\* outcome of one fetch: the request is served by GitHub ("ok": GitHub's own
\* rules decide the status), answered with a non-success status without effect
\* ("fail": 401/403/5xx), or fetch itself rejects without effect ("throw")
Outcomes == {"ok", "fail", "throw"}

NoSha == 0

(***************************************************************************)
(* State                                                                   *)
(***************************************************************************)
VARIABLES
  ghToken,   \* process.env.GITHUB_TOKEN is set
  repo,      \* GitHub: the repository exists
  ref,       \* GitHub: the commit refs/heads/main points at, NoSha if the ref is absent
  commits,   \* GitHub: commit objects, commit sha = index; [tree, parent]
  trees,     \* GitHub: tree objects, tree sha = index; path -> blob sha (NoSha: no entry)
  blobs,     \* GitHub: the blob shas created so far
  run,       \* per request: the execution of ensureRepoAndPush (position and locals)
  log,       \* per request: the calls it issued and what GitHub held when it read
  authEnv,   \* process.env.MCP_AUTH_TOKEN
  rateEnv,   \* process.env.MCP_RATE_LIMIT_MAX and MCP_RATE_LIMIT_WINDOW_SEC
  RATE,      \* the in-memory rate table: key -> [windowStartMs, count]
  now,       \* Date.now()
  request,   \* the headers of the last request handled
  response,  \* what the handler did with it
  audit,     \* the audit event the gate logged for it
  ownersEnv, \* process.env.MCP_ALLOWED_OWNERS
  tool,      \* the tool callback that ended last: its outcome, calls and audit events
  flight,    \* the tool callbacks of accepted requests that have not ended, oldest first
  hist,      \* the decisions of the rate limiter so far, oldest first
  source,    \* GitHub: the two template directories at the ref, as fetchTemplate walks them
  kind,      \* options.template of the fetchTemplate call
  fetches,   \* the two executions of fetchDirectoryRecursive: position and files so far
  skipped,   \* the files whose download failed, per execution
  resolved,  \* what fetchTemplate returned, or that it rejected
  arg,       \* the arguments of a call of mergeFiles or applyBranding
  ret,       \* what the call returned and left in its arguments
  vcToken,   \* process.env.VERCEL_TOKEN is set
  vcProject, \* Vercel: the id of the project of the name (0: none), creations, deployments
  vcRun      \* per request: the execution of ensureVercelProjectAndDeploy and its calls

remoteVars == <<repo, ref, commits, trees, blobs>>

pubVars == <<ghToken, remoteVars, run, log>>

gateVars ==
  <<authEnv, rateEnv, RATE, now, request, response, audit, ownersEnv, tool, flight, hist>>

tplVars == <<source, kind, fetches, skipped, resolved, arg, ret>>

vcVars == <<vcToken, vcProject, vcRun>>

vars == <<pubVars, gateVars, tplVars, vcVars, vcVars>>

(***************************************************************************)
(* GitHub objects                                                          *)
(***************************************************************************)
\* sha of a blob: a function of the bytes the request denotes (content under
\* the requested encoding); distinct bytes give distinct shas
BlobSha(content, encoding) ==
  10 * content + (IF encoding = "base64" THEN 1 ELSE 0)

\* the encoding field of the blob request body
BlobEncoding(file) == IF file.encoding = "base64" THEN "base64" ELSE "utf-8"

EmptyTree == [p \in AllPaths |-> NoSha]

\* GitHub, POST git/trees: the entries of the request laid over the base tree
RECURSIVE Overlay(_, _)
Overlay(base, items) ==
  IF items = <<>> THEN base
  ELSE Overlay([base EXCEPT ![Head(items).path] = Head(items).sha], Tail(items))

\* trees are content-addressed: an equal tree has the same sha
TreeShaOf(store, t) ==
  IF \E i \in 1..Len(store) : store[i] = t
  THEN CHOOSE i \in 1..Len(store) : store[i] = t
  ELSE Len(store) + 1

PutTree(store, t) ==
  IF \E i \in 1..Len(store) : store[i] = t THEN store ELSE Append(store, t)

\* c is a or a descendant of a in the commit graph
RECURSIVE IsDescendant(_, _, _)
IsDescendant(c, a, cs) ==
  IF c = NoSha THEN FALSE
  ELSE IF c = a THEN TRUE
  ELSE IsDescendant(cs[c].parent, a, cs)

HtmlUrl(sha) == 1000 + sha

\* the tree a fresh repository gets from auto_init: a README only
InitTree == [EmptyTree EXCEPT !["README.md"] = 5]

\* a request that has not started
IdleRun ==
  [pc |-> "idle",            \* the await the execution is suspended at
   files |-> <<>>,           \* the files argument
   created |-> FALSE,        \* EnsureRepoResult.created
   baseSha |-> NoSha,        \* pushFiles: baseSha (NoSha models null)
   baseTreeSha |-> NoSha,    \* pushFiles: baseTreeSha
   treeItems |-> <<>>,       \* pushFiles: treeItems
   treeSha |-> NoSha,        \* pushFiles: treeData.sha
   commitSha |-> NoSha,      \* pushFiles: commitData.sha
   result |-> [ok |-> FALSE, commitSha |-> NoSha, commitUrl |-> NoSha, filesCommitted |-> 0],      \* the PushFilesResult returned
   err |-> "none"]           \* the Error the execution ended with

EmptyLog ==
  [repoCalls |-> 0, blobCalls |-> 0, treeCalls |-> 0, commitCalls |-> 0, refCalls |-> 0,
   treeReq |-> [tree |-> <<>>, base_tree |-> NoSha],    \* body of the tree-creation request sent
   refReq |-> [method |-> "none", sha |-> NoSha, force |-> FALSE],      \* the ref request sent
   readRef |-> FALSE,        \* the ref read was issued
   tipAtRead |-> NoSha,      \* the branch tip on GitHub when the ref was read
   treeAtRead |-> NoSha,     \* the tree of that tip
   refWrites |-> 0,          \* times a call of this request moved the ref
   failed |-> "none"]        \* the stage whose call did not succeed

(***************************************************************************)
(* Request bodies and results built by the publisher                       *)
(***************************************************************************)
\* the Error an execution ends with when the call of a stage does not succeed:
\* a non-success response gives the stage's "Failed to ..." message, a fetch
\* that rejects gives fetch's own error, which names no stage
ErrorOf(stage, o) ==
  IF o = "throw" THEN "fetch failed"
  ELSE CASE stage = "getUser"    -> "Failed to get authenticated user"
         [] stage = "createRepo" -> "Failed to create repository"
         [] stage = "blob"       -> "Failed to create blob"
         [] stage = "tree"       -> "Failed to create tree"
         [] stage = "commit"     -> "Failed to create commit"
         [] stage = "ref"        -> "Failed to update ref"
         [] OTHER                -> "fetch failed"

\* the throw that ends the execution
Failed(r, stage, o) == [r EXCEPT !.pc = "failed", !.err = ErrorOf(stage, o)]

\* what GitHub answered, as the code sees it: a request GitHub served and
\* refused is a non-success response
Seen(o, accepted) == IF o = "ok" /\ ~accepted THEN "fail" ELSE o

\* body of POST git/blobs for one file
BlobBody(file) == [content |-> file.content, encoding |-> BlobEncoding(file)]

\* the loop stops one file short
AfterBlobsOffByOne(fs, k) == IF k + 1 < Len(fs) THEN "blob" ELSE "tree"

\* the for loop over files: the next await after k blobs have been created
AfterBlobs(fs, k) == IF k < Len(fs) THEN "blob" ELSE "tree"

\* the read of the branch is tried again when it gave no base
NoBaseRetries(r) == [r EXCEPT !.pc = "getRef"]

\* the state after the try block of step 1 when no base was read
NoBase(r) == [r EXCEPT !.pc = AfterBlobs(r.files, 0)]

\* body of POST git/trees: base_tree only when baseTreeSha is set
TreeBody(items, baseTree) == [tree |-> items, base_tree |-> baseTree]

\* body of POST git/commits: parents only when baseSha is set
CommitBody(tree, base) == [tree |-> tree, parent |-> base]

RefRequestForced(base, commit) ==
  [method |-> IF base # NoSha THEN "PATCH" ELSE "POST", sha |-> commit, force |-> TRUE]

\* step 5: PATCH git/refs/heads/main {sha, force: false} when baseSha is set,
\* POST git/refs {ref, sha} otherwise
RefRequest(base, commit) ==
  [method |-> IF base # NoSha THEN "PATCH" ELSE "POST", sha |-> commit, force |-> FALSE]

PushResult(commit, fs) ==
  [ok |-> TRUE, commitSha |-> commit, commitUrl |-> HtmlUrl(commit),
   filesCommitted |-> Len(fs)]

(***************************************************************************)
(* GitHub's rules for the calls                                            *)
(***************************************************************************)
\* POST git/trees: every entry names a blob GitHub holds, base_tree a tree it holds
GitHubAcceptsTree(body, bs, ts) ==
  /\ \A i \in 1..Len(body.tree) : body.tree[i].sha \in bs
  /\ body.base_tree = NoSha \/ body.base_tree \in 1..Len(ts)

\* POST git/commits: the tree and the parent are objects GitHub holds
GitHubAcceptsCommit(body, ts, cs) ==
  /\ body.tree \in 1..Len(ts)
  /\ body.parent = NoSha \/ body.parent \in 1..Len(cs)

\* PATCH git/refs/heads/main moves an existing ref, and unless forced only to
\* a descendant of its tip; POST git/refs creates a ref that does not exist
GitHubAcceptsRef(q, tip, cs) ==
  /\ q.sha \in 1..Len(cs)
  /\ IF q.method = "PATCH"
     THEN tip # NoSha /\ (q.force \/ IsDescendant(q.sha, tip, cs))
     ELSE tip = NoSha

TreeOfCommit(c) == IF c = NoSha THEN NoSha ELSE commits[c].tree

(***************************************************************************)
(* Initial state                                                           *)
(***************************************************************************)
\* the destination before the requests: no repository, a repository without
\* the branch, or the branch at tip T = commit 1 with tree X = tree 1
Destinations ==
  { [repo |-> FALSE, ref |-> NoSha, commits |-> <<>>, trees |-> <<>>, blobs |-> {}],
    [repo |-> TRUE, ref |-> NoSha, commits |-> <<>>, trees |-> <<>>, blobs |-> {}],
    [repo |-> TRUE, ref |-> 1, commits |-> <<[tree |-> 1, parent |-> NoSha]>>,
     trees |-> <<[EmptyTree EXCEPT !["README.md"] = 5, !["uno.config.ts"] = 7]>>, blobs |-> {5, 7}] }

PubInit ==
  /\ ghToken \in BOOLEAN
  /\ \E d \in Destinations :
       /\ repo = d.repo
       /\ ref = d.ref
       /\ commits = d.commits
       /\ trees = d.trees
       /\ blobs = d.blobs
  /\ run = [p \in Procs |-> IdleRun]
  /\ log = [p \in Procs |-> EmptyLog]

(***************************************************************************)
(* ensureRepoAndPush, one action per await                                 *)
(***************************************************************************)
\* ensureRepoAndPush is called; repoExists builds its headers, which throws
\* when GITHUB_TOKEN is missing
Call(p, fs) ==
  /\ run[p].pc = "idle"
  /\ run' = [run EXCEPT ![p] =
       IF ghToken
       THEN [@ EXCEPT !.files = fs, !.pc = "repoExists"]
       ELSE [@ EXCEPT !.files = fs, !.pc = "failed",
                      !.err = "GITHUB_TOKEN environment variable is required"]]
  /\ UNCHANGED <<ghToken, gateVars, tplVars, vcVars, remoteVars, log>>

\* repoExists: GET repos/owner/repo, then the branch of ensureRepo
RepoExists(p, o) ==
  /\ run[p].pc = "repoExists"
  /\ run' = [run EXCEPT ![p] =
       IF o = "throw" THEN Failed(@, "repoExists", o)
       ELSE IF o = "ok" /\ repo THEN [@ EXCEPT !.created = FALSE, !.pc = "getRef"]
       ELSE [@ EXCEPT !.pc = "getUser"]]
  /\ log' = [log EXCEPT ![p].failed = IF o = "throw" THEN "repoExists" ELSE @]
  /\ UNCHANGED <<ghToken, gateVars, tplVars, vcVars, remoteVars>>

\* createRepo: GET user
GetUser(p, o) ==
  /\ run[p].pc = "getUser"
  /\ run' = [run EXCEPT ![p] =
       IF o = "ok" THEN [@ EXCEPT !.pc = "createRepo"] ELSE Failed(@, "getUser", o)]
  /\ log' = [log EXCEPT ![p].failed = IF o = "ok" THEN @ ELSE "getUser"]
  /\ UNCHANGED <<ghToken, gateVars, tplVars, vcVars, remoteVars>>

\* createRepo: POST user/repos or orgs/owner/repos with auto_init; GitHub
\* refuses a name that exists, and a created repository has the branch with
\* an initial commit holding the README
CreateRepo(p, o) ==
  /\ run[p].pc = "createRepo"
  /\ IF o = "ok" /\ ~repo
     THEN /\ repo' = TRUE
          /\ trees' = PutTree(trees, InitTree)
          /\ commits' = Append(commits, [tree |-> TreeShaOf(trees, InitTree), parent |-> NoSha])
          /\ ref' = Len(commits) + 1
          /\ blobs' = blobs \cup {InitTree["README.md"]}
          /\ run' = [run EXCEPT ![p] = [@ EXCEPT !.created = TRUE, !.pc = "getRef"]]
          /\ log' = [log EXCEPT ![p].repoCalls = @ + 1]
     ELSE /\ run' = [run EXCEPT ![p] = Failed(@, "createRepo", Seen(o, FALSE))]
          /\ log' = [log EXCEPT ![p].repoCalls = @ + 1, ![p].failed = "createRepo"]
          /\ UNCHANGED remoteVars
  /\ UNCHANGED <<ghToken, gateVars, tplVars, vcVars>>

\* pushFiles step 1, first fetch: GET git/ref/heads/main inside try/catch
GetRef(p, o) ==
  /\ run[p].pc = "getRef"
  /\ run' = [run EXCEPT ![p] =
       IF o = "ok" /\ ref # NoSha
       THEN [@ EXCEPT !.baseSha = ref, !.pc = "getCommit"]
       ELSE NoBase(@)]
  /\ log' = [log EXCEPT ![p].readRef = TRUE, ![p].tipAtRead = ref,
                        ![p].treeAtRead = TreeOfCommit(ref)]
  /\ UNCHANGED <<ghToken, gateVars, tplVars, vcVars, remoteVars>>

\* pushFiles step 1, second fetch: GET git/commits/baseSha inside try/catch
GetCommit(p, o) ==
  /\ run[p].pc = "getCommit"
  /\ LET r == run[p]
     IN run' = [run EXCEPT ![p] =
          IF o = "ok"
          THEN NoBase([r EXCEPT !.baseTreeSha = commits[r.baseSha].tree])
          ELSE NoBase(r)]
  /\ UNCHANGED <<ghToken, gateVars, tplVars, vcVars, remoteVars, log>>

\* the blob response is not ok and the loop goes on with the body's sha (undefined)
BlobFailedIgnored(r, file, o) ==
  [r EXCEPT !.treeItems = Append(@, [path |-> file.path, sha |-> NoSha]),
            !.pc = AfterBlobs(r.files, Len(r.treeItems) + 1)]

\* the blob response is not ok: the same call is made again
BlobFailedRetried(r, file, o) == r

\* the blob response is not ok: throw
BlobFailed(r, file, o) == Failed(r, "blob", o)

\* pushFiles step 2, one iteration: POST git/blobs for the next file
CreateBlob(p, o) ==
  /\ run[p].pc = "blob"
  /\ LET r == run[p]
         file == r.files[Len(r.treeItems) + 1]
         body == BlobBody(file)
         sha == BlobSha(body.content, body.encoding)
     IN IF o = "ok"
        THEN /\ blobs' = blobs \cup {sha}
             /\ run' = [run EXCEPT ![p] =
                  [r EXCEPT !.treeItems = Append(@, [path |-> file.path, sha |-> sha]),
                            !.pc = AfterBlobs(r.files, Len(r.treeItems) + 1)]]
             /\ log' = [log EXCEPT ![p].blobCalls = @ + 1]
        ELSE /\ run' = [run EXCEPT ![p] = BlobFailed(r, file, o)]
             /\ log' = [log EXCEPT ![p].blobCalls = @ + 1,
                                   ![p].failed = IF @ = "none" THEN "blob" ELSE @]
             /\ UNCHANGED blobs
  /\ UNCHANGED <<ghToken, gateVars, tplVars, vcVars, repo, ref, commits, trees>>

\* pushFiles step 3: POST git/trees
CreateTree(p, o) ==
  /\ run[p].pc = "tree"
  /\ LET r == run[p]
         body == TreeBody(r.treeItems, r.baseTreeSha)
         accepted == GitHubAcceptsTree(body, blobs, trees)
         t == Overlay(IF body.base_tree # NoSha THEN trees[body.base_tree] ELSE EmptyTree,
                      body.tree)
     IN IF o = "ok" /\ accepted
        THEN /\ trees' = PutTree(trees, t)
             /\ run' = [run EXCEPT ![p] =
                  [r EXCEPT !.treeSha = TreeShaOf(trees, t), !.pc = "commit"]]
             /\ log' = [log EXCEPT ![p].treeCalls = @ + 1, ![p].treeReq = body]
        ELSE /\ run' = [run EXCEPT ![p] = Failed(r, "tree", Seen(o, accepted))]
             /\ log' = [log EXCEPT ![p].treeCalls = @ + 1, ![p].treeReq = body,
                                   ![p].failed = IF @ = "none" THEN "tree" ELSE @]
             /\ UNCHANGED trees
  /\ UNCHANGED <<ghToken, gateVars, tplVars, vcVars, repo, ref, commits, blobs>>

\* the commit response is not ok and the execution goes on with the body's sha (undefined)
CommitFailedIgnored(r, o) == [r EXCEPT !.pc = "ref"]

\* the commit response is not ok: throw
CommitFailed(r, o) == Failed(r, "commit", o)

\* pushFiles step 4: POST git/commits
CreateCommit(p, o) ==
  /\ run[p].pc = "commit"
  /\ LET r == run[p]
         body == CommitBody(r.treeSha, r.baseSha)
         accepted == GitHubAcceptsCommit(body, trees, commits)
     IN IF o = "ok" /\ accepted
        THEN /\ commits' = Append(commits, body)
             /\ run' = [run EXCEPT ![p] =
                  [r EXCEPT !.commitSha = Len(commits) + 1, !.pc = "ref"]]
             /\ log' = [log EXCEPT ![p].commitCalls = @ + 1]
        ELSE /\ run' = [run EXCEPT ![p] = CommitFailed(r, Seen(o, accepted))]
             /\ log' = [log EXCEPT ![p].commitCalls = @ + 1,
                                   ![p].failed = IF @ = "none" THEN "commit" ELSE @]
             /\ UNCHANGED commits
  /\ UNCHANGED <<ghToken, gateVars, tplVars, vcVars, repo, ref, trees, blobs>>

\* pushFiles step 5: PATCH or POST the ref, then the return
UpdateRef(p, o) ==
  /\ run[p].pc = "ref"
  /\ LET r == run[p]
         q == RefRequest(r.baseSha, r.commitSha)
         accepted == GitHubAcceptsRef(q, ref, commits)
     IN IF o = "ok" /\ accepted
        THEN /\ ref' = q.sha
             /\ log' = [log EXCEPT ![p].refCalls = @ + 1, ![p].refReq = q,
                                   ![p].refWrites = @ + 1]
             /\ run' = [run EXCEPT ![p] =
                  [r EXCEPT !.result = PushResult(r.commitSha, r.files), !.pc = "done"]]
        ELSE /\ log' = [log EXCEPT ![p].refCalls = @ + 1, ![p].refReq = q,
                                   ![p].failed = IF @ = "none" THEN "ref" ELSE @]
             /\ run' = [run EXCEPT ![p] = Failed(r, "ref", Seen(o, accepted))]
             /\ UNCHANGED ref
  /\ UNCHANGED <<ghToken, gateVars, tplVars, vcVars, repo, commits, trees, blobs>>

\* a step of the request p
Publish(p) ==
  \/ (run[p].pc = "idle" /\ \E fs \in FileSets : Call(p, fs))
  \/ \E o \in Outcomes :
       \/ RepoExists(p, o)
       \/ GetUser(p, o)
       \/ CreateRepo(p, o)
       \/ GetRef(p, o)
       \/ GetCommit(p, o)
       \/ CreateBlob(p, o)
       \/ CreateTree(p, o)
       \/ CreateCommit(p, o)
       \/ UpdateRef(p, o)

(***************************************************************************)
(* Strings, as sequences of characters                                     *)
(***************************************************************************)
\* the value of a header that is not sent, or of a variable that is not set
Undefined == <<"undefined">>

\* JavaScript truthiness of string | undefined
Truthy(s) == s # Undefined /\ s # <<>>

StartsWith(s, prefix) ==
  Len(s) >= Len(prefix) /\ SubSeq(s, 1, Len(prefix)) = prefix

\* s.slice(n)
Slice(s, n) == SubSeq(s, n + 1, Len(s))

\* the characters String.prototype.trim removes and \s matches: WhiteSpace
\* and LineTerminator (space, tab, LF, CR, FF, VT, NBSP, U+1680, U+FEFF;
\* the spaces of U+2000..U+3000 are not in the alphabet of the model)
IsSpace(c) == c \in {" ", "\t", "\n", "\r", "\f", "", " ", " ", "﻿"}

RECURSIVE TrimStart(_)
TrimStart(s) == IF s # <<>> /\ IsSpace(Head(s)) THEN TrimStart(Tail(s)) ELSE s

RECURSIVE TrimEnd(_)
TrimEnd(s) ==
  IF s # <<>> /\ IsSpace(s[Len(s)]) THEN TrimEnd(SubSeq(s, 1, Len(s) - 1)) ELSE s

\* s.trim()
Trim(s) == TrimEnd(TrimStart(s))

BearerPrefix == <<"B", "e", "a", "r", "e", "r", " ">>

(***************************************************************************)
(* Gatekeeper                                                              *)
(***************************************************************************)
\* the bearer credential: authHeader?.startsWith("Bearer ") ? slice.trim() : undefined
Bearer(authHeader) ==
  IF authHeader # Undefined /\ StartsWith(authHeader, BearerPrefix)
  THEN Trim(Slice(authHeader, Len(BearerPrefix)))
  ELSE Undefined

\* bearer || xKey?.trim()
Provided(authHeader, xKey) ==
  IF Truthy(Bearer(authHeader)) THEN Bearer(authHeader)
  ELSE IF xKey = Undefined THEN Undefined ELSE Trim(xKey)

Thrown(status, message, retryAfter) ==
  [threw |-> TRUE, statusCode |-> status, message |-> message,
   retryAfterSec |-> retryAfter, authToken |-> Undefined]

\* the secret is not checked: a request is compared with whatever is configured
AssertAuthorizedNoConfigCheck(expected, authHeader, xKey) ==
  LET provided == Provided(authHeader, xKey)
  IN IF ~Truthy(provided) \/ provided # expected
     THEN Thrown(401, "Unauthorized", 0)
     ELSE [threw |-> FALSE, statusCode |-> 0, message |-> "none",
           retryAfterSec |-> 0, authToken |-> provided]

\* the credential is compared as sent, without trim
AssertAuthorizedNoTrim(expected, authHeader, xKey) ==
  LET bearer == IF authHeader # Undefined /\ StartsWith(authHeader, BearerPrefix)
                THEN Slice(authHeader, Len(BearerPrefix)) ELSE Undefined
      provided == IF Truthy(bearer) THEN bearer ELSE xKey
  IN IF ~Truthy(expected)
     THEN Thrown(500, "MCP_AUTH_TOKEN is not set on the server", 0)
     ELSE IF ~Truthy(provided) \/ provided # expected
     THEN Thrown(401, "Unauthorized", 0)
     ELSE [threw |-> FALSE, statusCode |-> 0, message |-> "none",
           retryAfterSec |-> 0, authToken |-> provided]

\* assertAuthorized: returns { authToken } or throws an HttpError
AssertAuthorized(expected, authHeader, xKey) ==
  LET provided == Provided(authHeader, xKey)
  IN IF ~Truthy(expected)
     THEN Thrown(500, "MCP_AUTH_TOKEN is not set on the server", 0)
     ELSE IF ~Truthy(provided) \/ provided # expected
     THEN Thrown(401, "Unauthorized", 0)
     ELSE [threw |-> FALSE, statusCode |-> 0, message |-> "none",
           retryAfterSec |-> 0, authToken |-> provided]

DefaultRateLimitMax == 100

DefaultRateLimitWindowSec == 60

\* Number(process.env.X ?? default)
EnvNumber(v, default) == IF v.set THEN v.value ELSE default

Max(a, b) == IF a >= b THEN a ELSE b

\* Math.floor(a / b) for b > 0
FloorDiv(a, b) == IF a >= 0 THEN a \div b ELSE -(((-a) + b - 1) \div b)

\* Math.ceil(a / b) for b > 0
CeilDiv(a, b) == IF a >= 0 THEN (a + b - 1) \div b ELSE -((-a) \div b)

\* x-forwarded-for?.split(",")[0]?.trim() || x-real-ip || "unknown";
\* xff is the header as the list of its comma-separated values
ClientIp(xff, realIp) ==
  IF xff # Undefined /\ xff # <<>> /\ Truthy(Trim(xff[1])) THEN Trim(xff[1])
  ELSE IF Truthy(realIp) THEN realIp
  ELSE <<"u", "n", "k", "n", "o", "w", "n">>

\* the quota is compared with > instead of >=
AssertRateLimitedOffByOne(table, env, t, authToken, xff, realIp) ==
  LET max == EnvNumber(env.max, DefaultRateLimitMax)
      windowSec == EnvNumber(env.windowSec, DefaultRateLimitWindowSec)
      windowMs == Max(1, windowSec) * 1000
      ip == ClientIp(xff, realIp)
      key == <<authToken, ip>>
      fresh == key \notin DOMAIN table \/ t - table[key].windowStartMs >= windowMs
      left == IF key \in DOMAIN table
              THEN Max(1, CeilDiv(table[key].windowStartMs + windowMs - t, 1000))
              ELSE 0
  IN IF fresh
     THEN [threw |-> FALSE, statusCode |-> 0, retryAfterSec |-> 0, ip |-> ip,
           remaining |-> Max(0, max - 1), resetInSec |-> windowSec,
           table |-> [k \in DOMAIN table \cup {key} |->
                        IF k = key THEN [windowStartMs |-> t, count |-> 1] ELSE table[k]]]
     ELSE IF table[key].count > max
     THEN [threw |-> TRUE, statusCode |-> 429, retryAfterSec |-> left, ip |-> ip,
           remaining |-> 0, resetInSec |-> 0, table |-> table]
     ELSE [threw |-> FALSE, statusCode |-> 0, retryAfterSec |-> 0, ip |-> ip,
           remaining |-> Max(0, max - (table[key].count + 1)), resetInSec |-> left,
           table |-> [table EXCEPT ![key].count = @ + 1]]

\* the window is over only after more than its length
AssertRateLimitedLateReset(table, env, t, authToken, xff, realIp) ==
  LET max == EnvNumber(env.max, DefaultRateLimitMax)
      windowSec == EnvNumber(env.windowSec, DefaultRateLimitWindowSec)
      windowMs == Max(1, windowSec) * 1000
      ip == ClientIp(xff, realIp)
      key == <<authToken, ip>>
      fresh == key \notin DOMAIN table \/ t - table[key].windowStartMs > windowMs
      left == IF key \in DOMAIN table
              THEN Max(1, CeilDiv(table[key].windowStartMs + windowMs - t, 1000))
              ELSE 0
  IN IF fresh
     THEN [threw |-> FALSE, statusCode |-> 0, retryAfterSec |-> 0, ip |-> ip,
           remaining |-> Max(0, max - 1), resetInSec |-> windowSec,
           table |-> [k \in DOMAIN table \cup {key} |->
                        IF k = key THEN [windowStartMs |-> t, count |-> 1] ELSE table[k]]]
     ELSE IF table[key].count >= max
     THEN [threw |-> TRUE, statusCode |-> 429, retryAfterSec |-> left, ip |-> ip,
           remaining |-> 0, resetInSec |-> 0, table |-> table]
     ELSE [threw |-> FALSE, statusCode |-> 0, retryAfterSec |-> 0, ip |-> ip,
           remaining |-> Max(0, max - (table[key].count + 1)), resetInSec |-> left,
           table |-> [table EXCEPT ![key].count = @ + 1]]

\* a rejected request starts the window of its key again
AssertRateLimitedPenalty(table, env, t, authToken, xff, realIp) ==
  LET max == EnvNumber(env.max, DefaultRateLimitMax)
      windowSec == EnvNumber(env.windowSec, DefaultRateLimitWindowSec)
      windowMs == Max(1, windowSec) * 1000
      ip == ClientIp(xff, realIp)
      key == <<authToken, ip>>
      fresh == key \notin DOMAIN table \/ t - table[key].windowStartMs >= windowMs
      left == IF key \in DOMAIN table
              THEN Max(1, CeilDiv(table[key].windowStartMs + windowMs - t, 1000))
              ELSE 0
  IN IF fresh
     THEN [threw |-> FALSE, statusCode |-> 0, retryAfterSec |-> 0, ip |-> ip,
           remaining |-> Max(0, max - 1), resetInSec |-> windowSec,
           table |-> [k \in DOMAIN table \cup {key} |->
                        IF k = key THEN [windowStartMs |-> t, count |-> 1] ELSE table[k]]]
     ELSE IF table[key].count >= max
     THEN [threw |-> TRUE, statusCode |-> 429, retryAfterSec |-> left, ip |-> ip,
           remaining |-> 0, resetInSec |-> 0,
           table |-> [table EXCEPT ![key].windowStartMs = t]]
     ELSE [threw |-> FALSE, statusCode |-> 0, retryAfterSec |-> 0, ip |-> ip,
           remaining |-> Max(0, max - (table[key].count + 1)), resetInSec |-> left,
           table |-> [table EXCEPT ![key].count = @ + 1]]

\* assertRateLimited: the new table and { ip, remaining, resetInSec }, or a 429
AssertRateLimited(table, env, t, authToken, xff, realIp) ==
  LET max == EnvNumber(env.max, DefaultRateLimitMax)
      windowSec == EnvNumber(env.windowSec, DefaultRateLimitWindowSec)
      windowMs == Max(1, windowSec) * 1000
      ip == ClientIp(xff, realIp)
      key == <<authToken, ip>>
      fresh == key \notin DOMAIN table \/ t - table[key].windowStartMs >= windowMs
      left == IF key \in DOMAIN table
              THEN Max(1, CeilDiv(table[key].windowStartMs + windowMs - t, 1000))
              ELSE 0
  IN IF fresh
     THEN [threw |-> FALSE, statusCode |-> 0, retryAfterSec |-> 0, ip |-> ip,
           remaining |-> Max(0, max - 1), resetInSec |-> windowSec,
           table |-> [k \in DOMAIN table \cup {key} |->
                        IF k = key THEN [windowStartMs |-> t, count |-> 1] ELSE table[k]]]
     ELSE IF table[key].count >= max
     THEN [threw |-> TRUE, statusCode |-> 429, retryAfterSec |-> left, ip |-> ip,
           remaining |-> 0, resetInSec |-> 0, table |-> table]
     ELSE [threw |-> FALSE, statusCode |-> 0, retryAfterSec |-> 0, ip |-> ip,
           remaining |-> Max(0, max - (table[key].count + 1)), resetInSec |-> left,
           table |-> [table EXCEPT ![key].count = @ + 1]]

\* raw.split(",")
RECURSIVE Split(_)
Split(s) ==
  IF \A i \in 1..Len(s) : s[i] # ","
  THEN <<s>>
  ELSE LET i == CHOOSE i \in 1..Len(s) : s[i] = "," /\ \A j \in 1..(i - 1) : s[j] # ","
       IN <<SubSeq(s, 1, i - 1)>> \o Split(SubSeq(s, i + 1, Len(s)))

\* raw.split(",").map((s) => s.trim()).filter(Boolean)
AllowedOwners(raw) ==
  {Trim(Split(raw)[i]) : i \in 1..Len(Split(raw))} \ {<<>>}

\* the owner is not looked up in the list
AssertOwnerAllowedAnyOwner(raw, owner) ==
  IF ~Truthy(raw)
  THEN [threw |-> TRUE, statusCode |-> 500,
        message |-> "MCP_ALLOWED_OWNERS is not set on the server"]
  ELSE [threw |-> FALSE, statusCode |-> 0, message |-> "none"]

\* assertOwnerAllowed: returns, or throws an HttpError (500 or 403)
AssertOwnerAllowed(raw, owner) ==
  IF ~Truthy(raw)
  THEN [threw |-> TRUE, statusCode |-> 500,
        message |-> "MCP_ALLOWED_OWNERS is not set on the server"]
  ELSE IF owner \notin AllowedOwners(raw)
  THEN [threw |-> TRUE, statusCode |-> 403, message |-> "Owner not allowed"]
  ELSE [threw |-> FALSE, statusCode |-> 0, message |-> "none"]

Generated == <<"generated">>

\* x-request-id || x-vercel-id || a generated identifier
RequestId(headers) ==
  IF Truthy(headers.xRequestId) THEN headers.xRequestId
  ELSE IF Truthy(headers.xVercelId) THEN headers.xVercelId
  ELSE Generated

NoRequest ==
  [authorization |-> Undefined, xMcpKey |-> Undefined,
   xForwardedFor |-> Undefined, xRealIp |-> Undefined,
   xRequestId |-> Undefined, xVercelId |-> Undefined]

NoResponse ==
  [denied |-> FALSE, status |-> 0, message |-> "none", retryAfter |-> 0,
   authorized |-> FALSE, served |-> FALSE, crashed |-> FALSE]

\* console.log throws in the n-th auditLog call of a request: never, in the
\* first call only, in every call, or from the second call on
LogThrows(f, n) ==
  \/ f = "always"
  \/ f = "once" /\ n = 1
  \/ f = "later" /\ n >= 2

NoAudit ==
  [event |-> "none", status |-> 0, requestId |-> Undefined, message |-> "none",
   ip |-> Undefined, remaining |-> 0, resetInSec |-> 0]

\* the tools that take no repository owner
ReadOnlyTools ==
  {"describe_uno_theme", "describe_base_template", "describe_packages",
   "describe_template", "compare_templates"}

\* the tools whose input carries git.owner
OwnerTools == {"plan_storefront", "create_store_and_deploy"}

\* a message that calls no tool (initialize, tools/list)
NoCall == [call |-> "none", owner |-> Undefined]

NoTool ==
  [name |-> "none", owner |-> Undefined, requestId |-> Undefined, f |-> "none",
   status |-> 0, pc |-> "none", ran |-> FALSE, threw |-> FALSE, statusCode |-> 0,
   message |-> "none", calls |-> {}, events |-> <<>>]

\* createStoreAndDeploy: resolver, transformer, publisher, provisioner in
\* sequence.  o = "ok": all of them ran; "fail": the template fetch failed;
\* "publish": a stage of the publisher failed, after calls to the
\* repository; "provision": ensuring the project failed, after the commit
\* was published.  The error names the component that failed.  The calls
\* are the reads of the template ("source"), the calls of the publisher to
\* the repository and the calls of the provisioner to the hosting provider.
CreateStoreAndDeploy(o) ==
  [threw |-> o # "ok",
   message |-> CASE o = "ok"        -> "none"
                 [] o = "fail"      -> "template fetch failed"
                 [] o = "publish"   -> "publish failed"
                 [] OTHER           -> "provisioning failed",
   calls |-> CASE o = "fail"    -> {"source"}
               [] o = "publish" -> {"source", "repository"}
               [] OTHER         -> {"source", "repository", "hosting"}]

\* a handler that reads the templates and then writes to the repository
ReadTemplatesAndPublish(o) ==
  [threw |-> o # "ok",
   message |-> IF o = "ok" THEN "none" ELSE "fetch failed",
   calls |-> {"source", "repository"}]

\* the reads of a describe_*, compare_templates or plan_storefront handler:
\* GET requests for the template's files
ReadTemplates(o) ==
  [threw |-> o # "ok",
   message |-> IF o = "ok" THEN "none" ELSE "fetch failed",
   calls |-> {"source"}]

\* the handler logs success whatever the pipeline did
TerminalEventSuccess(threw) == "mcp.tool.success"

\* create_store_and_deploy: the event logged in the try block after the
\* pipeline returned, or in the catch block before the error is thrown on
TerminalEvent(threw) == IF threw THEN "mcp.tool.error" ELSE "mcp.tool.success"

\* the callback registered for msg.call is called with the message's input
\* and runs to its first await: assertOwnerAllowed where the tool has it, then
\* for create_store_and_deploy the mcp.tool.start event and the call of the
\* pipeline, for the other tools the requests for the template
StartTool(e, raw) ==
  LET w == AssertOwnerAllowed(raw, e.owner)
      refused == [e EXCEPT !.pc = "done", !.ran = TRUE, !.threw = TRUE,
                           !.statusCode = w.statusCode, !.message = w.message]
      awaiting == [e EXCEPT !.pc = "await", !.ran = TRUE, !.calls = {"source"}]
  IN IF e.name \in ReadOnlyTools THEN awaiting
     ELSE IF w.threw THEN refused
     ELSE IF e.name = "plan_storefront" THEN awaiting
     ELSE IF LogThrows(e.f, 2)
     THEN [e EXCEPT !.pc = "done", !.ran = TRUE, !.threw = TRUE,
                    !.message = "log failed"]
     ELSE [awaiting EXCEPT
             !.events = <<[event |-> "mcp.tool.start", requestId |-> e.requestId]>>]

\* the awaited promise settles, with outcome o, and the callback runs to its
\* end: create_store_and_deploy logs its terminal event and returns the
\* result or throws the error on, the other tools return or throw
FinishTool(e, o) ==
  LET c == IF e.name = "create_store_and_deploy"
           THEN CreateStoreAndDeploy(o) ELSE ReadTemplates(o)
  IN [e EXCEPT !.pc = "done", !.threw = c.threw, !.message = c.message,
               !.calls = c.calls,
               !.events = IF e.name = "create_store_and_deploy"
                          THEN Append(@, [event |-> TerminalEvent(c.threw),
                                          requestId |-> e.requestId])
                          ELSE @]

\* the request as the handler receives it: the headers and the MCP message
RequestOf(headers, msg) ==
  [authorization |-> headers.authorization, xMcpKey |-> headers.xMcpKey,
   xForwardedFor |-> headers.xForwardedFor, xRealIp |-> headers.xRealIp,
   xRequestId |-> headers.xRequestId, xVercelId |-> headers.xVercelId,
   body |-> msg]

\* a request the limiter stops is served all the same
AcceptsUnlimited(a, r) == ~a.threw

\* the try block of the handler ended without a throw
Accepts(a, r) == ~a.threw /\ ~r.threw

\* the rate check runs whatever assertAuthorized did
CountedAlways(a) == TRUE

\* the try block of the handler: assertRateLimited is called only when
\* assertAuthorized returned
Counted(a) == ~a.threw

\* auditLog: the event is written, or console.log throws and nothing is
AuditLog(event, logThrew) ==
  [threw |-> logThrew, written |-> IF logThrew THEN NoAudit ELSE event]

\* the default event handler up to its first await: the gate, its audit
\* event, and either the denial response or the MCP server with its tools
\* connected to the transport; the callback of a tool call is then in
\* flight.  f tells which auditLog calls of the request fail; when the one
\* of the denial fails the handler rejects after the Retry-After header and
\* before the status and the body are set
Handle(headers, msg, f) ==
  \E a \in {AssertAuthorized(authEnv, headers.authorization, headers.xMcpKey)} :
  \E r \in {AssertRateLimited(RATE, rateEnv, now, a.authToken,
                              headers.xForwardedFor, headers.xRealIp)} :
  \E requestId \in {RequestId(headers)} :
  \E accepted \in {AuditLog([event |-> "mcp.request.accepted", status |-> 0,
                             requestId |-> requestId, message |-> "none",
                             ip |-> r.ip, remaining |-> r.remaining,
                             resetInSec |-> r.resetInSec], LogThrows(f, 1))} :
  \* what the catch block has caught: the gate's HttpError, or the error
  \* of the accepted event's auditLog, which has no statusCode
  \E err \in {IF a.threw
              THEN [status |-> a.statusCode, message |-> a.message, retryAfter |-> 0]
              ELSE IF r.threw
              THEN [status |-> r.statusCode, message |-> "Rate limit exceeded",
                    retryAfter |-> r.retryAfterSec]
              ELSE [status |-> 401, message |-> "log failed", retryAfter |-> 0]} :
  \E denied \in {AuditLog([event |-> "mcp.request.denied", status |-> err.status,
                           requestId |-> requestId, message |-> err.message,
                           ip |-> Undefined, remaining |-> 0, resetInSec |-> 0],
                          LogThrows(f, IF Accepts(a, r) THEN 2 ELSE 1))} :
     /\ Len(hist) < MaxRequests
     /\ request' = RequestOf(headers, msg)
     /\ IF ~Counted(a)
        THEN UNCHANGED <<RATE, hist>>
        ELSE /\ RATE' = r.table
             /\ hist' = Append(hist, [key |-> <<a.authToken, r.ip>>, t |-> now,
                                      ok |-> ~r.threw, remaining |-> r.remaining,
                                      retryAfterSec |-> r.retryAfterSec])
     /\ IF ~Accepts(a, r) \/ accepted.threw
        THEN /\ response' = [denied |-> ~denied.threw,
                             status |-> IF denied.threw THEN 0 ELSE err.status,
                             message |-> IF denied.threw THEN "none" ELSE err.message,
                             retryAfter |-> err.retryAfter,
                             authorized |-> ~a.threw, served |-> FALSE,
                             crashed |-> denied.threw]
             /\ audit' = denied.written
             /\ flight' = flight
        ELSE /\ response' = [denied |-> FALSE, status |-> 0, message |-> "none",
                             retryAfter |-> 0, authorized |-> TRUE, served |-> TRUE,
                             crashed |-> FALSE]
             /\ audit' = accepted.written
             /\ flight' = IF msg.call = "none" THEN flight
                          ELSE Append(flight,
                                 [NoTool EXCEPT !.name = msg.call, !.owner = msg.owner,
                                                !.requestId = requestId, !.f = f,
                                                !.pc = "connect"])
     /\ UNCHANGED <<authEnv, rateEnv, ownersEnv, now, tool, pubVars, tplVars, vcVars>>

\* a step of the tool callback of the i-th request in flight: transport.
\* handleRequest calls it, or the promise it awaits settles with outcome o;
\* a callback that ended leaves the flight and is the one that ended last;
\* only the pipeline of create_store_and_deploy has a publisher and a
\* provisioner that can fail
Serve(i, o) ==
  /\ i \in 1..Len(flight)
  /\ o \in {"publish", "provision"} =>
       flight[i].name = "create_store_and_deploy" /\ flight[i].pc = "await"
  /\ \E e \in {IF flight[i].pc = "connect" THEN StartTool(flight[i], ownersEnv)
                ELSE FinishTool(flight[i], o)} :
       IF e.pc = "done"
       THEN /\ tool' = e
            /\ flight' = SubSeq(flight, 1, i - 1) \o SubSeq(flight, i + 1, Len(flight))
       ELSE /\ tool' = tool
            /\ flight' = [flight EXCEPT ![i] = e]
  /\ UNCHANGED <<authEnv, rateEnv, ownersEnv, RATE, now, request, response, audit,
                 hist, pubVars, tplVars, vcVars>>

\* time passes between requests
Tick(d) ==
  /\ now + d <= MaxNow
  /\ now' = now + d
  /\ UNCHANGED <<authEnv, rateEnv, ownersEnv, RATE, request, response, audit,
                 tool, flight, hist, pubVars, tplVars, vcVars>>

(***************************************************************************)
(* Vercel provisioning (ensureVercelProjectAndDeploy), one action per      *)
(* await on fetch; concurrent requests work on one project name            *)
(***************************************************************************)
\* a provisioning execution that has not started
IdleDeploy ==
  [pc |-> "idle",          \* the await the execution is suspended at
   git |-> FALSE,          \* options.gitRepository is given
   found |-> "unknown",    \* what projectExists returned
   calls |-> <<>>,         \* the calls to the Vercel API issued so far
   project |-> [projectId |-> 0, created |-> FALSE],  \* VercelProjectResult
   deployment |-> FALSE,   \* EnsureVercelProjectAndDeployResult.deployment is not null
   err |-> "none"]         \* the Error the execution ended with

\* ensureProject creates whatever projectExists found
CreatesAlways(exists, projectId) == TRUE

\* ensureProject: the project is created unless exists && projectId
Creates(exists, projectId) == ~(exists /\ projectId # 0)

\* ensureProject has returned: the trigger is awaited if a repository is
\* configured, else the operation returns with deployment null
Ensured(r, projectId, created) ==
  [r EXCEPT !.pc = IF r.git THEN "triggerDeployment" ELSE "done",
            !.project = [projectId |-> projectId, created |-> created]]

\* ensureVercelProjectAndDeploy is called; projectExists builds its headers,
\* which throws without VERCEL_TOKEN
Provision(p, git) ==
  /\ vcRun[p].pc = "idle"
  /\ vcRun' = [vcRun EXCEPT ![p] =
                 IF vcToken
                 THEN [@ EXCEPT !.pc = "projectExists", !.git = git]
                 ELSE [@ EXCEPT !.pc = "failed", !.git = git,
                                !.err = "VERCEL_TOKEN environment variable is required"]]
  /\ UNCHANGED <<vcToken, vcProject, pubVars, gateVars, tplVars>>

\* projectExists: GET /v9/projects/:name answers 200 with the project's id,
\* 404, or another status (the "Failed to check ..." error), or fetch
\* rejects and its own error, which names no stage, ends the execution
ProjectExists(p, o) ==
  /\ vcRun[p].pc = "projectExists"
  /\ LET r == [vcRun[p] EXCEPT !.calls = Append(@, "GET project")]
         exists == vcProject.id # 0
     IN vcRun' = [vcRun EXCEPT ![p] =
          IF o # "ok"
          THEN [r EXCEPT !.pc = "failed",
                         !.err = IF o = "throw" THEN "fetch failed"
                                 ELSE "Failed to check project existence"]
          ELSE IF Creates(exists, vcProject.id)
          THEN [r EXCEPT !.pc = "createProject",
                         !.found = IF exists THEN "exists" ELSE "absent"]
          ELSE Ensured([r EXCEPT !.found = "exists"], vcProject.id, FALSE)]
  /\ UNCHANGED <<vcToken, vcProject, pubVars, gateVars, tplVars>>

\* createProject: POST /v10/projects creates the project unless the name
\* is taken (a non-success answer), or fails (the "Failed to create ..."
\* error), or fetch rejects and its own error ends the execution
CreateProject(p, o) ==
  /\ vcRun[p].pc = "createProject"
  /\ LET r == [vcRun[p] EXCEPT !.calls = Append(@, "POST project")]
     IN IF o = "ok" /\ vcProject.id = 0
        THEN /\ vcProject' = [vcProject EXCEPT !.id = 1, !.creations = @ + 1]
             /\ vcRun' = [vcRun EXCEPT ![p] = Ensured(r, 1, TRUE)]
        ELSE /\ vcRun' = [vcRun EXCEPT ![p] =
                            [r EXCEPT !.pc = "failed",
                                      !.err = IF o = "throw" THEN "fetch failed"
                                              ELSE "Failed to create Vercel project"]]
             /\ UNCHANGED vcProject
  /\ UNCHANGED <<vcToken, pubVars, gateVars, tplVars>>

\* triggerDeployment outside try/catch: its failure fails the operation
TriggerDeploymentUncaught(p, o) ==
  /\ vcRun[p].pc = "triggerDeployment"
  /\ vcRun' = [vcRun EXCEPT ![p] =
                 [@ EXCEPT !.pc = IF o = "ok" THEN "done" ELSE "failed",
                           !.calls = Append(@, "POST deployment"),
                           !.deployment = (o = "ok")]]
  /\ vcProject' = [vcProject EXCEPT !.deployments = IF o = "ok" THEN @ + 1 ELSE @]
  /\ UNCHANGED <<vcToken, pubVars, gateVars, tplVars>>

\* triggerDeployment: POST /v13/deployments, inside try/catch: a failure is
\* logged with console.warn and the operation returns the project
TriggerDeployment(p, o) ==
  /\ vcRun[p].pc = "triggerDeployment"
  /\ vcRun' = [vcRun EXCEPT ![p] =
                 [@ EXCEPT !.pc = "done", !.calls = Append(@, "POST deployment"),
                           !.deployment = (o = "ok")]]
  /\ vcProject' = [vcProject EXCEPT !.deployments = IF o = "ok" THEN @ + 1 ELSE @]
  /\ UNCHANGED <<vcToken, pubVars, gateVars, tplVars>>

\* nothing is provisioned
VcIdle ==
  /\ vcToken = TRUE
  /\ vcProject = [id |-> 0, creations |-> 0, deployments |-> 0]
  /\ vcRun = [p \in Procs |-> IdleDeploy]

(***************************************************************************)
(* Template resolver (fetchTemplate)                                       *)
(***************************************************************************)
\* A content is the sequence of its characters.  A template directory at the
\* ref is given as the sequence of requests fetchDirectoryRecursive makes for
\* it: the listing of a directory, then its items in listing order

\* the text \.\.\/vue-starter-template of the pattern of fixNuxtConfig: the
\* local path of the base template, as the extension's config names it
BasePathRef ==
  <<"\\",".","\\",".","\\","/">> \o <<"v","u","e","-","s","t","a","r","t","e","r","-","t","e","m","p","l","a","t","e">>

\* the number of whitespace characters (\s) at the head of s
RECURSIVE SpaceRun(_)
SpaceRun(s) == IF s # <<>> /\ IsSpace(Head(s)) THEN 1 + SpaceRun(Tail(s)) ELSE 0

Drop(s, n) == SubSeq(s, n + 1, Len(s))

\* the character of s at index k, and the characters of s from index k on
At(s, k) == IF k \in 1..Len(s) THEN s[k] ELSE "<end>"
From(s, k) == Drop(s, k - 1)

\* the index after the whitespace run (\s*) that starts at index k
SkipSpace(s, k) == k + SpaceRun(From(s, k))

\* the index behind the match of the pattern text pat at index k of s, 0
\* when it does not match there: pat is made of characters that match
\* themselves and of characters escaped by a backslash
RECURSIVE MatchText(_, _, _)
MatchText(s, k, pat) ==
  IF pat = <<>> THEN k
  ELSE LET escaped == Head(pat) = "\\" /\ Len(pat) >= 2
       IN IF At(s, k) = (IF escaped THEN pat[2] ELSE pat[1])
          THEN MatchText(s, k + 1, Drop(pat, IF escaped THEN 2 ELSE 1))
          ELSE 0

\* length of the match of
\*   /extends:\s*\[["']\.\.\/vue-starter-template["']\],?\s*\n?/
\* at the head of s, 0 if there is none
ExtendsMatch(s) ==
  LET a == MatchText(s, 1, <<"e","x","t","e","n","d","s",":">>)
      b == SkipSpace(s, a)
      p == MatchText(s, b + 2, BasePathRef)
      c == IF At(s, p + 2) = "," THEN p + 3 ELSE p + 2
  IN IF /\ a # 0
        /\ At(s, b) = "[" /\ At(s, b + 1) \in {"\"", "'"}
        /\ p # 0
        /\ At(s, p) \in {"\"", "'"} /\ At(s, p + 1) = "]"
     THEN SkipSpace(s, c) - 1
     ELSE 0

\* fixNuxtConfig: content.replace(/.../g, ""): every match from left to
\* right is taken out
RECURSIVE FixNuxtConfig(_)
FixNuxtConfig(content) ==
  LET hits == {i \in 1..Len(content) : ExtendsMatch(From(content, i)) > 0}
      i == CHOOSE x \in hits : \A y \in hits : x <= y
  IN IF hits = {} THEN content
     ELSE SubSeq(content, 1, i - 1)
            \o FixNuxtConfig(Drop(content, i - 1 + ExtendsMatch(From(content, i))))

\* fileMap.set(file.path, file): a present key keeps its place
MapSet(entries, file) ==
  IF \E i \in 1..Len(entries) : entries[i].path = file.path
  THEN [i \in 1..Len(entries) |->
          IF entries[i].path = file.path THEN file ELSE entries[i]]
  ELSE Append(entries, file)

RECURSIVE MapSetAll(_, _)
MapSetAll(entries, files) ==
  IF files = <<>> THEN entries
  ELSE MapSetAll(MapSet(entries, Head(files)), Tail(files))

\* the base file wins on a path of both
MergeFilesBaseWins(base, override) == MapSetAll(MapSetAll(<<>>, override), base)

\* mergeFiles: Array.from(fileMap.values()) after base, then override
MergeFiles(base, override) == MapSetAll(MapSetAll(<<>>, base), override)

\* files[nuxtConfigIndex] = { ...files[nuxtConfigIndex], content: fixNuxtConfig(...) }
FixUp(files) ==
  [i \in 1..Len(files) |->
     IF files[i].path = "nuxt.config.ts"
        /\ \A j \in 1..(i - 1) : files[j].path # "nuxt.config.ts"
     THEN [files[i] EXCEPT !.content = FixNuxtConfig(files[i].content)]
     ELSE files[i]]

\* Buffer.from(buffer).toString("base64")
Base64(bytes) == <<"base64:">> \o bytes

BinaryExtensions == {"public/favicon.ico"}

ListDir(path) ==
  [op |-> "list", path |-> path, content |-> <<>>, binary |-> FALSE,
   inline |-> FALSE, url |-> FALSE]

\* a file of a listing: its content, whether the answer of the contents API
\* for it carries the content (encoding base64; not for a large file), and
\* whether it has a download_url
SrcFile(path, content, inline, url) ==
  [op |-> "file", path |-> path, content |-> content,
   binary |-> path \in BinaryExtensions, inline |-> inline, url |-> url]

\* nuxt.config.ts of the extension: the reference on one line with double and
\* with single quotes, spread over lines, with a second layer, and without it
NuxtConfigs ==
  {
    \* x\nextends: ["../vue-starter-template"],\ny
    <<"x","\n">>
      \o <<"e","x","t","e","n","d","s",":"," ","[","\"",".",".","/","v","u">>
      \o <<"e","-","s","t","a","r","t","e","r","-","t","e","m","p","l","a">>
      \o <<"t","e","\"","]",",","\n">>
      \o <<"y">>,
    \* x\nextends:['../vue-starter-template']\ny
    <<"x","\n">>
      \o <<"e","x","t","e","n","d","s",":","[","'",".",".","/","v","u","e">>
      \o <<"-","s","t","a","r","t","e","r","-","t","e","m","p","l","a","t">>
      \o <<"e","'","]","\n">>
      \o <<"y">>,
    \* x\nextends: [\n"../vue-starter-template",\n],\ny
    <<"x","\n">>
      \o <<"e","x","t","e","n","d","s",":"," ","[","\n">>
      \o <<"\"",".",".","/","v","u","e","-","s","t","a","r","t","e","r","-">>
      \o <<"t","e","m","p","l","a","t","e","\"",",","\n">>
      \o <<"]",",","\n">>
      \o <<"y">>,
    \* x\nextends: ["../vue-starter-template", "./layer"],\ny
    <<"x","\n">>
      \o <<"e","x","t","e","n","d","s",":"," ","[","\"",".",".","/","v","u">>
      \o <<"e","-","s","t","a","r","t","e","r","-","t","e","m","p","l","a">>
      \o <<"t","e","\"",","," ","\"",".","/","l","a","y","e","r","\"","]",",">>
      \o <<"\n">>
      \o <<"y">>,
    \* x\ny
    <<"x","\n">>
      \o <<"y">> }

\* the directories of the two templates: files the contents API answers
\* whole, a large file and an empty one it answers without content, files
\* without a download_url, a binary file
Sources ==
  [base :
      { << ListDir(""), SrcFile("app.vue", <<"a", "1">>, TRUE, TRUE),
           ListDir("public"), SrcFile("public/favicon.ico", <<"i", "1">>, FALSE, TRUE) >>,
        << ListDir(""), SrcFile("app.vue", <<"a", "1">>, TRUE, TRUE),
           ListDir("public"), SrcFile("public/favicon.ico", <<"i", "1">>, FALSE, FALSE) >>,
        << ListDir(""), SrcFile("app.vue", <<"a", "1">>, FALSE, TRUE),
           SrcFile("README.md", <<>>, TRUE, FALSE) >>,
        << ListDir(""), SrcFile("app.vue", <<"a", "1">>, TRUE, TRUE) >> },
   ext :
      { << ListDir(""), SrcFile("nuxt.config.ts", n, TRUE, TRUE),
           SrcFile("app.vue", <<"a", "2">>, TRUE, TRUE) >> : n \in NuxtConfigs }
        \cup { << ListDir(""), SrcFile("nuxt.config.ts", <<"x", "\n", "y">>, TRUE, TRUE) >>,
               << ListDir(""), SrcFile("app.vue", <<>>, TRUE, TRUE) >> }]

Fetchers == {"base", "ext"}

\* an execution of fetchDirectoryRecursive: the item it waits for an answer
\* about, and whether the answer is that of the item's request or that of
\* the download fetchFileContent sent after it
NoFetch == [status |-> "unused", idx |-> 1, at |-> "item", files |-> <<>>]

Pending(k) == [status |-> "pending", files |-> <<>>, template |-> k, ref |-> "main"]

\* nothing of the resolver is running
TplIdle ==
  /\ source = [f \in Fetchers |-> <<>>]
  /\ kind = "vue-starter-template-extended"
  /\ fetches = [f \in Fetchers |-> NoFetch]
  /\ skipped = {}
  /\ resolved = Pending("none")
  /\ arg = <<>>
  /\ ret = <<>>

\* a download that fails ends the execution too
AbortsOnAny(item, o) == o # "ok"

\* the answer makes fetchDirectoryRecursive throw: a listing that failed
\* (the downloads are inside try/catch)
Aborts(item, o) == item.op = "list" /\ o # "ok"

\* the answer o to the request fetchDirectoryRecursive waits for, and what
\* it does up to its next request.  For a file that is not binary the
\* request is that of fetchFileContent to the contents API; when the answer
\* has no content and the item a download_url, a second request downloads
\* the file.  A binary file without download_url is passed over without a
\* request.
FetchStep(f, o) ==
  /\ fetches[f].status = "running"
  /\ LET w == source[f]
         idx == fetches[f].idx
         item == w[idx]
         download == fetches[f].at = "download"
         \* data.encoding === "base64" && data.content
         inline == item.inline /\ item.content # <<>>
         again == /\ item.op = "file" /\ ~item.binary /\ ~download
                  /\ o = "ok" /\ ~inline /\ item.url
         fetched == /\ item.op = "file" /\ o = "ok"
                    /\ (item.binary \/ download \/ inline)
         file == [path |-> item.path,
                  content |-> IF item.binary THEN Base64(item.content) ELSE item.content,
                  encoding |-> IF item.binary THEN "base64" ELSE "utf-8"]
         later == {j \in (idx + 1)..Len(w) :
                     w[j].op = "list" \/ ~w[j].binary \/ w[j].url}
         next == IF later = {} THEN Len(w) + 1
                 ELSE CHOOSE j \in later : \A k \in later : j <= k
     IN /\ fetches' = [fetches EXCEPT ![f] =
             IF Aborts(item, o)
             THEN [@ EXCEPT !.status = "failed"]
             ELSE IF again
             THEN [@ EXCEPT !.at = "download"]
             ELSE [status |-> IF later = {} THEN "done" ELSE "running",
                   idx |-> IF later = {} THEN idx ELSE next,
                   at |-> "item",
                   files |-> IF fetched THEN Append(@.files, file) ELSE @.files]]
        /\ skipped' =
             IF Aborts(item, o) \/ again THEN skipped
             ELSE skipped
                    \cup (IF item.op = "file" /\ ~fetched THEN {<<f, item.path>>} ELSE {})
                    \cup {<<f, w[j].path>> : j \in (idx + 1)..(next - 1)}
  /\ UNCHANGED <<source, kind, resolved, arg, ret, pubVars, gateVars, vcVars>>

\* the merge waits for one execution only
AnySettled == \E f \in Fetchers : fetches[f].status = "done"

\* Promise.all has resolved: every execution that was started is done
AllSettled == \A f \in Fetchers : fetches[f].status \in {"done", "unused"}

\* fetchTemplate returns { files, template, ref }
Resolve ==
  /\ resolved.status = "pending"
  /\ AllSettled
  /\ resolved' = [resolved EXCEPT
       !.status = "ok",
       !.files = IF kind = "vue-starter-template-extended"
                 THEN FixUp(MergeFiles(fetches["base"].files, fetches["ext"].files))
                 ELSE fetches["base"].files]
  /\ UNCHANGED <<source, kind, fetches, skipped, arg, ret, pubVars, gateVars, vcVars>>

\* a listing failed: Promise.all, and with it fetchTemplate, rejects
Reject ==
  /\ resolved.status = "pending"
  /\ \E f \in Fetchers : fetches[f].status = "failed"
  /\ resolved' = [resolved EXCEPT !.status = "failed"]
  /\ UNCHANGED <<source, kind, fetches, skipped, arg, ret, pubVars, gateVars, vcVars>>

\* path-unique lists of files for mergeFiles
MergeLists ==
  LET MergeFile ==
        {f \in [path : {"app.vue", "nuxt.config.ts", "public/favicon.ico"},
                content : {<<"c", "1">>, <<"c", "2">>},
                encoding : {"utf-8", "base64"}] :
           f.encoding = "base64" <=> f.path \in BinaryExtensions}
  IN {l \in UNION {[1..n -> MergeFile] : n \in 0..MaxMerge} :
        \A i, j \in 1..Len(l) : i # j => l[i].path # l[j].path}

\* values of MCP_AUTH_TOKEN: not set, empty, and two secrets
SecretSk == <<"s", "k">>

RateEnvs ==
  { [max |-> [set |-> FALSE, value |-> 0], windowSec |-> [set |-> FALSE, value |-> 0]],
    [max |-> [set |-> TRUE, value |-> 2], windowSec |-> [set |-> TRUE, value |-> 1]] }

\* the gatekeeper before any request
GateIdle ==
  /\ RATE = <<>>
  /\ now = 0
  /\ request = RequestOf(NoRequest, NoCall)
  /\ response = NoResponse
  /\ audit = NoAudit
  /\ tool = NoTool
  /\ flight = <<>>
  /\ hist = <<>>

PubIdle ==
  /\ ghToken = TRUE
  /\ repo = FALSE /\ ref = NoSha /\ commits = <<>> /\ trees = <<>> /\ blobs = {}
  /\ run = [p \in Procs |-> IdleRun]
  /\ log = [p \in Procs |-> EmptyLog]

\* the gatekeeper's configuration where the gate is not exercised
GateEnvIdle ==
  /\ authEnv = SecretSk
  /\ ownersEnv = Undefined
  /\ rateEnv = [max |-> [set |-> FALSE, value |-> 0],
                windowSec |-> [set |-> FALSE, value |-> 0]]

GateInit ==
  /\ authEnv \in {Undefined, <<>>, SecretSk, <<"x", "x">>}
  /\ ownersEnv = Undefined
  /\ rateEnv \in {e \in RateEnvs : e.max.set}
  /\ GateIdle
  /\ PubIdle
  /\ TplIdle
  /\ VcIdle

GateNext ==
  \/ \E h \in
      { Undefined,
        BearerPrefix \o SecretSk,
        BearerPrefix \o <<" ">> \o SecretSk,
        BearerPrefix \o <<"\t">> \o SecretSk \o <<"\n">>,
        BearerPrefix \o <<"x", "x">>,
        BearerPrefix \o <<" ">>,
        <<"B", "e", "a", "r", "e", "r">>,
        <<"b", "e", "a", "r", "e", "r", " ">> \o SecretSk,
        SecretSk },
        x \in {Undefined, <<>>, SecretSk, <<"x", "x">>, SecretSk \o <<"\t", " ">>} :
       Handle([NoRequest EXCEPT !.authorization = h, !.xMcpKey = x], NoCall, "none")
  \/ Tick(1000)

\* the gatekeeper under requests with any credential
SpecGate == GateInit /\ [][GateNext]_vars

EnvOf(max, windowSec) ==
  [max |-> [set |-> TRUE, value |-> max],
   windowSec |-> [set |-> TRUE, value |-> windowSec]]

BearerSk == [NoRequest EXCEPT !.authorization = BearerPrefix \o SecretSk]

RateInit ==
  /\ authEnv = SecretSk
  /\ ownersEnv = Undefined
  \* values of MCP_RATE_LIMIT_MAX and MCP_RATE_LIMIT_WINDOW_SEC: not set, the
  \* documented example, a two-second window, no quota, a window of no length
  /\ rateEnv \in
     { [max |-> [set |-> FALSE, value |-> 0], windowSec |-> [set |-> FALSE, value |-> 0]],
       EnvOf(3, 60), EnvOf(1, 2), EnvOf(0, 1), EnvOf(1, 0) }
  /\ GateIdle
  /\ PubIdle
  /\ TplIdle
  /\ VcIdle

RateNext ==
  \* requests with the right credential from two clients: no address header,
  \* a forwarded-for list, and the second client by x-real-ip
  \/ \E h \in
      { BearerSk,
        [BearerSk EXCEPT !.xForwardedFor = << <<" ", "\t", "7">>, <<"9">> >>],
        [BearerSk EXCEPT !.xRealIp = <<"7">>] } :
       Handle(h, NoCall, "none")
  \/ \E d \in {400, 1000} : Tick(d)

\* the rate limiter under authorized requests and passing time
SpecRate == RateInit /\ [][RateNext]_vars

ToolsInit ==
  /\ authEnv \in {Undefined, SecretSk}
  /\ ownersEnv \in {Undefined, <<"a">>, <<"b", ",", " ", "\t", "a">>, <<",">>}
  /\ rateEnv = EnvOf(2, 1)
  /\ GateIdle
  /\ PubIdle
  /\ TplIdle
  /\ VcIdle

\* requests in flight together: any message with the right credential, and
\* a call of create_store_and_deploy with a wrong credential and with either
\* correlation header; the quota of two requests bounds the flight
ToolsNext ==
  \/ \E q \in
        ({BearerSk} \X
           ({NoCall}
              \cup {[call |-> n, owner |-> Undefined] : n \in ReadOnlyTools}
              \cup {[call |-> n, owner |-> w] :
                      n \in OwnerTools, w \in {<<"a">>, <<"b">>}}))
        \cup
        ({ [NoRequest EXCEPT !.authorization = BearerPrefix \o <<"x", "x">>],
           [BearerSk EXCEPT !.xVercelId = <<"v">>] } \X
           {[call |-> "create_store_and_deploy", owner |-> <<"a">>]})
        \cup
        ({ [BearerSk EXCEPT !.xRequestId = <<"r">>] } \X
           {[call |-> "create_store_and_deploy", owner |-> w] : w \in {<<"a">>, <<"b">>}}) :
       Handle(q[1], q[2], "none")
  \/ \E i \in DOMAIN flight, o \in {"ok", "fail", "publish", "provision"} :
       Serve(i, o)

\* the gate and the tools under any message
SpecTools == ToolsInit /\ [][ToolsNext]_vars

LogInit ==
  /\ authEnv = SecretSk
  /\ ownersEnv = <<"a">>
  /\ rateEnv = EnvOf(2, 1)
  /\ GateIdle
  /\ PubIdle
  /\ TplIdle
  /\ VcIdle

\* requests with the right and with a wrong credential, with and without a
\* tool call, and which auditLog calls fail
LogNext ==
  \/ \E h \in {BearerSk,
               [NoRequest EXCEPT !.authorization = BearerPrefix \o <<"x", "x">>]},
        m \in {NoCall, [call |-> "create_store_and_deploy", owner |-> <<"a">>]},
        f \in {"none", "once", "always", "later"} : Handle(h, m, f)
  \/ \E i \in DOMAIN flight, o \in {"ok", "fail"} : Serve(i, o)
  \/ Tick(1000)

\* the handler when writing the audit log can fail
SpecLog == LogInit /\ [][LogNext]_vars

\* fetchTemplate is called: Promise.all starts both executions (one for the
\* base kind)
ResolveInit ==
  /\ source \in Sources
  /\ kind \in {"vue-starter-template", "vue-starter-template-extended"}
  /\ fetches = [f \in Fetchers |->
                  IF f = "ext" /\ kind # "vue-starter-template-extended"
                  THEN NoFetch
                  ELSE [status |-> "running", idx |-> 1, at |-> "item", files |-> <<>>]]
  /\ skipped = {}
  /\ resolved = Pending(kind)
  /\ arg = <<>>
  /\ ret = <<>>
  /\ PubIdle
  /\ GateIdle
  /\ GateEnvIdle
  /\ VcIdle

ResolveNext ==
  \/ \E f \in Fetchers, o \in Outcomes : FetchStep(f, o)
  \/ Resolve
  \/ Reject

\* fetchTemplate on the templates GitHub holds
SpecResolve == ResolveInit /\ [][ResolveNext]_vars

MergeInit ==
  /\ source = [f \in Fetchers |-> <<>>]
  /\ kind = "vue-starter-template-extended"
  /\ fetches = [f \in Fetchers |-> NoFetch]
  /\ skipped = {}
  /\ resolved = Pending("none")
  /\ arg \in [base : MergeLists, override : MergeLists]
  /\ ret = <<>>
  /\ PubIdle
  /\ GateIdle
  /\ GateEnvIdle
  /\ VcIdle

MergeCall ==
  /\ ret = <<>>
  /\ ret' = <<MergeFiles(arg.base, arg.override)>>
  /\ UNCHANGED <<source, kind, fetches, skipped, resolved, arg, pubVars, gateVars, vcVars>>

\* mergeFiles on any two lists
SpecMerge == MergeInit /\ [][MergeCall]_vars

(***************************************************************************)
(* Branding (templateInspect.ts).  A content is the sequence of its        *)
(* characters; a path is the sequence of its segments between the "/"      *)
(* separators.  A pattern match is a record of indices whose field end is  *)
(* 0 when the pattern does not match.                                      *)
(***************************************************************************)
\* the number of word characters (\w, [A-Za-z0-9_]) at the head of s
RECURSIVE WordRun(_)
WordRun(s) ==
  IF s # <<>>
     /\ Head(s) \in
          {"a","b","c","d","e","f","g","h","i","j","k","l","m",
           "n","o","p","q","r","s","t","u","v","w","x","y","z",
           "A","B","C","D","E","F","G","H","I","J","K","L","M",
           "N","O","P","Q","R","S","T","U","V","W","X","Y","Z",
           "0","1","2","3","4","5","6","7","8","9","_"}
  THEN 1 + WordRun(Tail(s))
  ELSE 0

\* the lookahead (?=\w+\s*:|$|\}) of the block pattern at index k, under
\* the m flag: a key follows, or the input or the line ends ($ holds before
\* a line terminator; of these the model's alphabet has LF and CR), or a
\* brace closes
BlockLookahead(s, k) ==
  \/ /\ WordRun(From(s, k)) > 0
     /\ At(s, SkipSpace(s, k + WordRun(From(s, k)))) = ":"
  \/ k = Len(s) + 1
  \/ At(s, k) \in {"\n", "\r"}
  \/ At(s, k) = "}"

\* where \s*,?\s*(?=...) ends when it starts at index p, 0 when it does not
\* match: both runs are greedy and give back one character at a time, the
\* comma is taken when it is there and given up after the run behind it
BlockEndAt(s, p) ==
  LET c == SkipSpace(s, p)
      withComma ==
        IF At(s, c) = ","
        THEN {k \in (c + 1)..SkipSpace(s, c + 1) : BlockLookahead(s, k)}
        ELSE {}
      plain == {k \in p..c : BlockLookahead(s, k)}
  IN IF withComma # {} THEN CHOOSE k \in withComma : \A m \in withComma : m <= k
     ELSE IF plain # {} THEN CHOOSE k \in plain : \A m \in plain : m <= k
     ELSE 0

\* content.match(/colors\s*:\s*\{([\s\S]*?)\}\s*,?\s*(?=\w+\s*:|$|\})/m):
\* the leftmost match; the block is lazy, it ends before the first closing
\* brace behind which the rest of the pattern matches.  from is the index
\* of the match, open and close those of the braces, end the index behind
\* the match
BlockMatch(s) ==
  LET Open(i) == SkipSpace(s, SkipSpace(s, i + 6) + 1)
      Closes(i) ==
        {e \in (Open(i) + 1)..Len(s) : s[e] = "}" /\ BlockEndAt(s, e + 1) # 0}
      starts ==
        {i \in 1..Len(s) :
           /\ MatchText(s, i, <<"c","o","l","o","r","s">>) # 0
           /\ At(s, SkipSpace(s, i + 6)) = ":"
           /\ At(s, Open(i)) = "{"
           /\ Closes(i) # {}}
  IN IF starts = {} THEN [from |-> 0, open |-> 0, close |-> 0, end |-> 0]
     ELSE LET i == CHOOSE x \in starts : \A y \in starts : x <= y
              e == CHOOSE x \in Closes(i) : \A y \in Closes(i) : x <= y
          IN [from |-> i, open |-> Open(i), close |-> e,
              end |-> BlockEndAt(s, e + 1)]

\* the index of the closing quote of (['"])([^'"]+)\2 when the opening
\* quote is at index q, 0 when it does not match there
QuotedEnd(s, q) ==
  LET later == {k \in (q + 1)..Len(s) : s[k] \in {"'", "\""}}
  IN IF At(s, q) \notin {"'", "\""} \/ later = {} THEN 0
     ELSE LET k == CHOOSE x \in later : \A y \in later : x <= y
          IN IF k > q + 1 /\ s[k] = s[q] THEN k ELSE 0

\* str.replace(/[.*+?^${}()|[\]\\]/g, "\\$&"): a backslash before every
\* character that has a meaning in a pattern
RECURSIVE EscapeRegex(_)
EscapeRegex(str) ==
  IF str = <<>> THEN <<>>
  ELSE (IF Head(str) \in {".", "*", "+", "?", "^", "$", "{", "}", "(", ")",
                          "|", "[", "]", "\\"}
        THEN <<"\\", Head(str)>> ELSE <<Head(str)>>)
         \o EscapeRegex(Tail(str))

\* the match of simplePattern, (token\s*:\s*)(['"])([^'"]+)\2 with the token
\* escaped, at index k of s: the index of the opening quote and of the
\* closing one
SimpleMatch(s, k, token) ==
  LET t == MatchText(s, k, EscapeRegex(token))
      q == SkipSpace(s, SkipSpace(s, t) + 1)
  IN IF t # 0 /\ At(s, SkipSpace(s, t)) = ":"
     THEN [quote |-> q, end |-> QuotedEnd(s, q)]
     ELSE [quote |-> 0, end |-> 0]

\* the match of nestedPattern,
\* (token\s*:\s*\{[^}]*DEFAULT\s*:\s*)(['"])([^'"]+)\2 with the token
\* escaped, at index k of s: [^}]* is greedy, so the last DEFAULT before
\* the first closing brace that has a quoted value
NestedMatch(s, k, token) ==
  LET t == MatchText(s, k, EscapeRegex(token))
      b == SkipSpace(s, SkipSpace(s, t) + 1)
      QuoteOf(d) == SkipSpace(s, SkipSpace(s, d + 7) + 1)
      defaults ==
        {d \in (b + 1)..Len(s) :
           /\ MatchText(s, d, <<"D","E","F","A","U","L","T">>) # 0
           /\ \A j \in (b + 1)..(d - 1) : s[j] # "}"
           /\ At(s, SkipSpace(s, d + 7)) = ":"
           /\ QuotedEnd(s, QuoteOf(d)) # 0}
  IN IF /\ t # 0
        /\ At(s, SkipSpace(s, t)) = ":"
        /\ At(s, b) = "{"
        /\ defaults # {}
     THEN LET d == CHOOSE x \in defaults : \A y \in defaults : y <= x
          IN [quote |-> QuoteOf(d), end |-> QuotedEnd(s, QuoteOf(d))]
     ELSE [quote |-> 0, end |-> 0]

\* GetSubstitution of String.prototype.replace: the text a replacement
\* string stands for when the match of the text matched, with the groups
\* captures, is at index position of str.  $$ is a dollar sign, $& the
\* match, $' the text behind it, $n and $nn the n-th group; any other
\* dollar sign stands for itself.  The text before the match is written
\* with a backtick, a character a string of a module cannot hold.
RECURSIVE GetSubstitution(_, _, _, _, _)
GetSubstitution(matched, str, position, captures, replacement) ==
  LET digits == <<"0", "1", "2", "3", "4", "5", "6", "7", "8", "9">>
      IsDigit(c) == \E n \in 1..10 : digits[n] = c
      Value(c) == (CHOOSE n \in 1..10 : digits[n] = c) - 1
      \* the first dollar sign that has a character behind it
      dollars == {i \in 1..(Len(replacement) - 1) : replacement[i] = "$"}
      d == CHOOSE i \in dollars : \A j \in dollars : i <= j
      c1 == replacement[d + 1]
      c2 == At(replacement, d + 2)
      two == IF IsDigit(c2) THEN 10 * Value(c1) + Value(c2) ELSE 0
      \* two digits when they name a group, the first digit otherwise
      count == IF two \in 1..Len(captures) THEN 2 ELSE 1
      index == IF count = 2 THEN two ELSE Value(c1)
      \* what stands behind the n characters read from the dollar sign on
      Rest(n) == GetSubstitution(matched, str, position, captures,
                                 Drop(replacement, d - 1 + n))
  IN IF dollars = {} THEN replacement
     ELSE SubSeq(replacement, 1, d - 1)
            \o (IF c1 = "$" THEN <<"$">> \o Rest(2)
                ELSE IF c1 = "&" THEN matched \o Rest(2)
                ELSE IF c1 = "'"
                THEN From(str, position + Len(matched)) \o Rest(2)
                ELSE IF IsDigit(c1)
                THEN (IF index \in 1..Len(captures) THEN captures[index]
                      ELSE SubSeq(replacement, d, d + count))
                       \o Rest(1 + count)
                ELSE <<"$">> \o Rest(1))

\* s.replace(pattern, '$1"' + value + '"') under the g flag, from index k on:
\* every match from left to right is replaced by what the replacement
\* string stands for; nested tells which of the two patterns
RECURSIVE PatternReplace(_, _, _, _, _)
PatternReplace(s, k, token, value, nested) ==
  LET Match(i) == IF nested THEN NestedMatch(s, i, token)
                  ELSE SimpleMatch(s, i, token)
      hits == {i \in k..Len(s) : Match(i).end # 0}
      i == CHOOSE x \in hits : \A y \in hits : x <= y
      m == Match(i)
  IN IF hits = {} THEN From(s, k)
     ELSE SubSeq(s, k, i - 1)
            \o GetSubstitution(SubSeq(s, i, m.end), s, i,
                               << SubSeq(s, i, m.quote - 1), <<s[m.quote]>>,
                                  SubSeq(s, m.quote + 1, m.end - 1) >>,
                               <<"$", "1", "\"">> \o value \o <<"\"">>)
            \o PatternReplace(s, m.end + 1, token, value, nested)

\* the loop over Object.entries(colors): the simple form when
\* simplePattern.test finds one in the block, the DEFAULT of a nested
\* object otherwise
RECURSIVE UpdateTokens(_, _)
UpdateTokens(colorsBlock, colors) ==
  IF colors = <<>> THEN colorsBlock
  ELSE LET token == Head(colors)[1]
           value == Head(colors)[2]
           test == \E i \in 1..Len(colorsBlock) :
                     SimpleMatch(colorsBlock, i, token).end # 0
       IN UpdateTokens(PatternReplace(colorsBlock, 1, token, value, ~test),
                       Tail(colors))

\* updateUnoColors(content, colors); colors is the list of the entries of
\* the object as Object.entries yields them.  The block with its new values
\* is part of the replacement string of the last replace
UpdateUnoColors(content, colors) ==
  LET m == BlockMatch(content)
      colorsBlock == SubSeq(content, m.open + 1, m.close - 1)
  IN IF m.end = 0 THEN content
     ELSE SubSeq(content, 1, m.from - 1)
            \o GetSubstitution(SubSeq(content, m.from, m.end - 1), content, m.from,
                               <<colorsBlock>>,
                               <<"c","o","l","o","r","s",":"," ","{">>
                                 \o UpdateTokens(colorsBlock, colors)
                                 \o <<"}", ",">>)
            \o From(content, m.end)

\* findIndex: the first of the indices that pass the test, 0 for -1
FirstIndex(hits) ==
  IF hits = {} THEN 0 ELSE CHOOSE i \in hits : \A j \in hits : i <= j

\* f.path === "uno.config.ts" || f.path.endsWith("/uno.config.ts")
IsUnoConfig(f) == f.path # <<>> /\ f.path[Len(f.path)] = "uno.config.ts"

LogoPath == <<"public", "logo.svg">>

\* f.path === logoPath || f.path === "logo.svg"
IsLogo(f) == f.path = LogoPath \/ f.path = <<"logo.svg">>

\* the colour part of applyBranding without the test that colours were
\* given
ApplyColorsAlways(r, colors) ==
  LET unoConfigIndex ==
        FirstIndex({i \in 1..Len(r.files) : IsUnoConfig(r.files[i])})
  IN IF unoConfigIndex # 0
     THEN LET unoFile == r.files[unoConfigIndex]
              updatedContent == UpdateUnoColors(unoFile.content, colors)
          IN IF updatedContent # unoFile.content
             THEN [r EXCEPT !.files[unoConfigIndex].content = updatedContent,
                            !.modifiedFiles = Append(@, unoFile.path)]
             ELSE [r EXCEPT !.warnings = Append(@,
                     "uno.config.ts found but no colors were updated - check color token names")]
     ELSE [r EXCEPT !.warnings = Append(@,
             "uno.config.ts not found in template - colors not applied")]

\* the colour part of applyBranding
ApplyColors(r, colors) ==
  IF Len(colors) > 0
  THEN LET unoConfigIndex ==
             FirstIndex({i \in 1..Len(r.files) : IsUnoConfig(r.files[i])})
       IN IF unoConfigIndex # 0
          THEN LET unoFile == r.files[unoConfigIndex]
                   updatedContent == UpdateUnoColors(unoFile.content, colors)
               IN IF updatedContent # unoFile.content
                  THEN [r EXCEPT !.files[unoConfigIndex].content = updatedContent,
                                 !.modifiedFiles = Append(@, unoFile.path)]
                  ELSE [r EXCEPT !.warnings = Append(@,
                          "uno.config.ts found but no colors were updated - check color token names")]
          ELSE [r EXCEPT !.warnings = Append(@,
                  "uno.config.ts not found in template - colors not applied")]
  ELSE r

\* the logo is appended whether or not the FileSet holds one
ApplyLogoAppends(r, logoSvg) ==
  IF Truthy(logoSvg)
  THEN [r EXCEPT !.files =
                   Append(@, [path |-> LogoPath, content |-> logoSvg,
                              encoding |-> "utf-8"]),
                 !.modifiedFiles = Append(@, LogoPath)]
  ELSE r

\* the logo part of applyBranding
ApplyLogo(r, logoSvg) ==
  IF Truthy(logoSvg)
  THEN LET logoIndex == FirstIndex({i \in 1..Len(r.files) : IsLogo(r.files[i])})
       IN IF logoIndex # 0
          THEN [r EXCEPT !.files[logoIndex] =
                           [path |-> r.files[logoIndex].path,
                            content |-> logoSvg, encoding |-> "utf-8"],
                         !.modifiedFiles = Append(@, r.files[logoIndex].path)]
          ELSE [r EXCEPT !.files =
                           Append(@, [path |-> LogoPath, content |-> logoSvg,
                                      encoding |-> "utf-8"]),
                         !.modifiedFiles = Append(@, LogoPath)]
  ELSE r

\* applyBranding(files, branding): the files after the call and the result
ApplyBranding(files, branding) ==
  ApplyLogo(
    ApplyColors([files |-> files, modifiedFiles |-> <<>>, warnings |-> <<>>],
                branding.colors),
    branding.logoSvg)

\* theme files: the usual layout with one assignment a line, the same
\* without whitespace behind the braces, a nested palette, a block written
\* without a space before its brace, a file with CRLF line ends whose block
\* has a longer key and another key behind it, and a file without a colors
\* block
UnoConfigs ==
  {
    \* theme: {\n colors: {\n primary: "#111",\n secondary: '#222',\n },\n}\n
    <<"t","h","e","m","e",":"," ","{","\n">>
      \o <<" ","c","o","l","o","r","s",":"," ","{","\n">>
      \o <<" ","p","r","i","m","a","r","y",":"," ","\"","#","1","1","1","\"">>
      \o <<",","\n">>
      \o <<" ","s","e","c","o","n","d","a","r","y",":"," ","'","#","2","2">>
      \o <<"2","'",",","\n">>
      \o <<" ","}",",","\n">>
      \o <<"}","\n">>,
    \* theme:{colors: {primary: "#111",secondary: "#222"},}
    <<"t","h","e","m","e",":","{","c","o","l","o","r","s",":"," ","{">>
      \o <<"p","r","i","m","a","r","y",":"," ","\"","#","1","1","1","\"",",">>
      \o <<"s","e","c","o","n","d","a","r","y",":"," ","\"","#","2","2","2">>
      \o <<"\"","}",",","}">>,
    \* colors: {\n primary: {\n DEFAULT: "#111",\n light: "#222",\n },\n secondary: "#222",\n},\n
    <<"c","o","l","o","r","s",":"," ","{","\n">>
      \o <<" ","p","r","i","m","a","r","y",":"," ","{","\n">>
      \o <<" ","D","E","F","A","U","L","T",":"," ","\"","#","1","1","1","\"">>
      \o <<",","\n">>
      \o <<" ","l","i","g","h","t",":"," ","\"","#","2","2","2","\"",",","\n">>
      \o <<" ","}",",","\n">>
      \o <<" ","s","e","c","o","n","d","a","r","y",":"," ","\"","#","2","2">>
      \o <<"2","\"",",","\n">>
      \o <<"}",",","\n">>,
    \* theme:{colors:{primary: "#111"},}
    <<"t","h","e","m","e",":","{","c","o","l","o","r","s",":","{","p">>
      \o <<"r","i","m","a","r","y",":"," ","\"","#","1","1","1","\"","}",",">>
      \o <<"}">>,
    \* colors: {\r\n brand_primary: "#111",\r\n},\r\nshortcuts: {}\r\n
    <<"c","o","l","o","r","s",":"," ","{","\r","\n">>
      \o <<" ","b","r","a","n","d","_","p","r","i","m","a","r","y",":"," ">>
      \o <<"\"","#","1","1","1","\"",",","\r","\n">>
      \o <<"}",",","\r","\n">>
      \o <<"s","h","o","r","t","c","u","t","s",":"," ","{","}","\r","\n">>,
    \* theme: {}\n
    <<"t","h","e","m","e",":"," ","{","}","\n">> }

\* FileSets, no two files at one path, of the files of a template: a
\* component, the logo at either path the code looks at, an icon, the theme
\* file at the root or in a package
BrandFileSets ==
  LET BrandFiles ==
        {[path |-> <<"app.vue">>, content |-> <<"a", "1">>, encoding |-> "utf-8"],
         [path |-> <<"public", "logo.svg">>,
          content |-> <<"<", "o", ">">>, encoding |-> "utf-8"],
         [path |-> <<"logo.svg">>,
          content |-> <<"<", "o", ">">>, encoding |-> "utf-8"],
         [path |-> <<"public", "favicon.ico">>, content |-> <<"A", "A", "=", "=">>,
          encoding |-> "base64"]}
          \cup [path : {<<"uno.config.ts">>, <<"apps", "uno.config.ts">>},
                content : UnoConfigs, encoding : {"utf-8"}]
  IN {l \in UNION {[1..n -> BrandFiles] : n \in 0..MaxBrandFiles} :
        \A i, j \in 1..Len(l) : i # j => l[i].path # l[j].path}

\* BrandingOptions { colors, logoSvg? }: an empty colors object, a token the
\* theme files assign, one they do not, both, and a value that reads as a
\* replacement pattern; no logo, an empty one, a logo
Brandings ==
  [colors : {<<>>,
             << <<<<"p","r","i","m","a","r","y">>, <<"#","9","9","9">>>> >>,
             << <<<<"a","c","c","e","n","t">>, <<"#","9","9","9">>>> >>,
             << <<<<"p","r","i","m","a","r","y">>, <<"#","9","9","9">>>>,
                <<<<"a","c","c","e","n","t">>, <<"#","8","8","8">>>> >>,
             << <<<<"p","r","i","m","a","r","y">>, <<"$","&">>>> >>},
   logoSvg : {Undefined, <<>>, <<"<", "n", ">">>}]

BrandInit ==
  /\ source = [f \in Fetchers |-> <<>>]
  /\ kind = "vue-starter-template-extended"
  /\ fetches = [f \in Fetchers |-> NoFetch]
  /\ skipped = {}
  /\ resolved = Pending("none")
  /\ arg \in [files : BrandFileSets, branding : Brandings]
  /\ ret = <<>>
  /\ PubIdle
  /\ GateIdle
  /\ GateEnvIdle
  /\ VcIdle

BrandCall ==
  /\ ret = <<>>
  /\ ret' = <<ApplyBranding(arg.files, arg.branding)>>
  /\ UNCHANGED <<source, kind, fetches, skipped, resolved, arg, pubVars, gateVars, vcVars>>

\* applyBranding on any FileSet and any BrandingOptions
SpecBrand == BrandInit /\ [][BrandCall]_vars

\* a call of fetchTemplate on the templates GitHub holds, or a call of
\* applyBranding on a FileSet
FileSetInit ==
  \/ ResolveInit
  \/ BrandInit

FileSetNext ==
  \/ arg = <<>> /\ ResolveNext
  \/ arg # <<>> /\ BrandCall

\* the two steps of the pipeline that build and change the FileSet
SpecFileSet == FileSetInit /\ [][FileSetNext]_vars

\* ensureVercelProjectAndDeploy under concurrent requests for one project
\* name, which exists already or not, with and without a repository
VercelInit ==
  /\ vcToken \in BOOLEAN
  /\ vcProject \in {[id |-> i, creations |-> 0, deployments |-> 0] : i \in {0, 1}}
  /\ vcRun = [p \in Procs |-> IdleDeploy]
  /\ TplIdle
  /\ PubIdle
  /\ GateIdle
  /\ GateEnvIdle

\* a step of the provisioning of the request p
Deploy(p) ==
  \/ \E git \in BOOLEAN : Provision(p, git)
  \/ \E o \in Outcomes :
       \/ ProjectExists(p, o)
       \/ CreateProject(p, o)
       \/ TriggerDeployment(p, o)

SpecVercel == VercelInit /\ [][\E p \in Procs : Deploy(p)]_vars

\* one request that publishes and provisions, its calls in any order
PipelineInit ==
  /\ PubInit
  /\ vcToken \in BOOLEAN
  /\ vcProject \in {[id |-> i, creations |-> 0, deployments |-> 0] : i \in {0, 1}}
  /\ vcRun = [p \in Procs |-> IdleDeploy]
  /\ TplIdle
  /\ GateIdle
  /\ GateEnvIdle

PipelineNext == \E p \in {"p1"} : Publish(p) \/ Deploy(p)

SpecPipeline == PipelineInit /\ [][PipelineNext]_vars

\* the request of SpecPipeline when every call to GitHub returns, with a
\* success or a failure: an execution suspended at an await goes on
SpecTerminates == PipelineInit /\ [][PipelineNext]_vars /\ WF_vars(Publish("p1"))

Init ==
  /\ PubInit
  /\ TplIdle
  /\ VcIdle
  /\ authEnv = SecretSk
  /\ ownersEnv = Undefined
  /\ rateEnv \in {e \in RateEnvs : ~e.max.set}
  /\ GateIdle

Next == \E p \in Procs : Publish(p)

\* the publisher under concurrent requests
Spec == Init /\ [][Next]_vars

(***************************************************************************)
(* Claims about the publisher                                              *)
(***************************************************************************)
\* the blob sha of the file of fs at path, NoSha when fs has no such file
ShaAt(fs, path) ==
  IF \E i \in 1..Len(fs) : fs[i].path = path
  THEN LET i == CHOOSE k \in 1..Len(fs) : fs[k].path = path
       IN BlobSha(fs[i].content, BlobEncoding(fs[i]))
  ELSE NoSha

\* C1 (publisher atomicity): in an existing repository the branch ref moves
\* only in a step that issues a request's ref call; a request issues its ref
\* call at most once, after all its blob calls, its tree call and its commit
\* call succeeded, and the ref then moves to its commit or not at all; the
\* step in which a request fails leaves the ref alone, a failed request has
\* never moved the ref, and if no other request moved it the ref is still the
\* tip (or still absent) the failed request found.
C1_PublisherAtomicity ==
  [][ /\ (repo /\ ref' # ref) =>
           \E p \in Procs : log'[p].refCalls = log[p].refCalls + 1
      /\ \A p \in Procs :
           /\ log'[p].refCalls # log[p].refCalls =>
                /\ log[p].refCalls = 0
                /\ log[p].failed = "none"
                /\ log[p].blobCalls = Len(run[p].files)
                /\ Len(run[p].treeItems) = Len(run[p].files)
                /\ log[p].treeCalls = 1 /\ run[p].treeSha # NoSha
                /\ log[p].commitCalls = 1 /\ run[p].commitSha # NoSha
                /\ ref' \in {ref, run[p].commitSha}
           /\ (run'[p].pc = "failed" /\ run[p].pc # "failed") => ref' = ref
           /\ run'[p].pc = "failed" =>
                /\ log'[p].refWrites = 0
                /\ (log'[p].readRef /\ \A q \in Procs \ {p} : log'[q].refWrites = 0)
                     => ref' = log'[p].tipAtRead
           /\ log'[p].refWrites <= 1
    ]_vars

\* C1 witness: the ref call of a request failed on a branch that stood at T, and the ref is T
C1_Witness ==
  \E p \in Procs :
    /\ run[p].pc = "failed" /\ log[p].failed = "ref"
    /\ log[p].tipAtRead = 1 /\ ref = 1

\* C2 (base-tree preservation), as claimed: a publish that succeeds on a
\* branch that stood at tip T with tree X when the tip was read leaves the ref
\* at a new commit whose parent is T and whose tree has the FileSet's blob at
\* every path of the FileSet and X's entry at every other path.
C2_BaseTreePreserved ==
  [][ \A p \in Procs :
        (run'[p].pc = "done" /\ run[p].pc # "done" /\ log[p].tipAtRead # NoSha) =>
          LET c == commits'[run'[p].commitSha]
              X == trees'[log[p].treeAtRead]
              N == trees'[c.tree]
          IN /\ ref' = run'[p].commitSha
             /\ c.parent = log[p].tipAtRead
             /\ \A path \in AllPaths :
                  N[path] = IF ShaAt(run[p].files, path) # NoSha
                            THEN ShaAt(run[p].files, path) ELSE X[path]
    ]_vars

\* C3 (no lost update): the ref never moves from a commit to a commit that
\* does not descend from it; of two requests that read the same tip at most
\* one ends published, and once one is published the other, if it issued its
\* ref call, failed at the ref stage without moving the ref; no ref request
\* is forced.
C3_NoLostUpdate ==
  [][ /\ (ref # NoSha /\ ref' # ref) => IsDescendant(ref', ref, commits')
      /\ \A p \in Procs : ~log'[p].refReq.force
      /\ \A p, q \in Procs :
           (p # q /\ log'[p].readRef /\ log'[q].readRef
              /\ log'[p].tipAtRead = log'[q].tipAtRead /\ run'[p].pc = "done") =>
             /\ run'[q].pc # "done"
             /\ log'[q].refCalls > 0 =>
                  (run'[q].pc = "failed" /\ log'[q].failed = "ref" /\ log'[q].refWrites = 0)
    ]_vars

\* C3 witness: two requests read the same tip T, one is published, GitHub
\* served the other's ref call and refused it
C3_Witness ==
  \E p, q \in Procs :
    /\ p # q /\ log[p].tipAtRead = 1 /\ log[q].tipAtRead = 1
    /\ run[p].pc = "done" /\ ref = run[p].commitSha
    /\ run[q].pc = "failed" /\ run[q].err = "Failed to update ref"
    /\ run[q].baseSha = 1 /\ log[q].refReq.method = "PATCH"

\* C4 (bootstrap fork), as claimed: the ref call a request issues is a
\* non-forced update exactly when the branch existed when the publish read it
\* and a create exactly when it did not.
C4_BootstrapFork ==
  \A p \in Procs :
    log[p].refCalls > 0 =>
      /\ (log[p].refReq.method = "PATCH") <=> (log[p].tipAtRead # NoSha)
      /\ (log[p].refReq.method = "POST") <=> (log[p].tipAtRead = NoSha)
      /\ ~log[p].refReq.force

\* C5 (blob failure aborts): when a blob call of a request fails the request
\* ends in failure in that step, having issued no tree, commit or ref call,
\* and from then on it issues no call at all.
C5_BlobFailureAborts ==
  [][ \A p \in Procs :
        /\ log'[p].failed = "blob" =>
             /\ run'[p].pc = "failed"
             /\ log'[p].treeCalls = 0 /\ log'[p].commitCalls = 0 /\ log'[p].refCalls = 0
             /\ log'[p].blobCalls = Len(run'[p].treeItems) + 1
        /\ log[p].failed = "blob" => (log'[p] = log[p] /\ run'[p] = run[p])
    ]_vars

\* C5 witness: the blob call for the second of two files failed, and the other
\* request went on to finish afterwards
C5_Witness ==
  \E p \in Procs :
    /\ log[p].failed = "blob" /\ Len(run[p].files) = 2 /\ Len(run[p].treeItems) = 1
    /\ \A q \in Procs \ {p} : run[q].pc = "done"

\* the messages that name a stage
StageErrors(stage) ==
  CASE stage = "createRepo" -> {"Failed to create repository"}
    [] stage = "blob"   -> {"Failed to create blob"}
    [] stage = "tree"   -> {"Failed to create tree"}
    [] stage = "commit" -> {"Failed to create commit"}
    [] stage = "ref"    -> {"Failed to update ref"}
    [] OTHER            -> {}

\* C6 (no partial success), as claimed: a request returns a result exactly
\* when its ref call succeeded, and a request one of whose stages failed ends
\* with an error that names that stage.
C6_NoPartialSuccess ==
  \A p \in Procs :
    /\ (run[p].pc = "done") <=> (log[p].refWrites = 1)
    /\ run[p].result.ok <=> (log[p].refWrites = 1)
    /\ log[p].failed \in {"createRepo", "blob", "tree", "commit", "ref"} =>
         (run[p].pc = "failed" /\ run[p].err \in StageErrors(log[p].failed))

\* C7 (idempotence), as claimed: when a request publishes a FileSet and the
\* next request publishes the same FileSet on the tip the first one left, the
\* second commit has the first as its parent and a tree equal to the first's.
C7_Idempotent ==
  \A p, q \in Procs :
    (p # q /\ run[p].pc = "done" /\ run[q].pc = "done"
       /\ run[p].files = run[q].files /\ log[q].tipAtRead = run[p].commitSha) =>
      /\ commits[run[q].commitSha].parent = run[p].commitSha
      /\ trees[commits[run[q].commitSha].tree] = trees[commits[run[p].commitSha].tree]

\* C8 (calls of a successful publish): a published request of n files issued
\* n blob calls, one tree call, one commit call and one ref call, its tree
\* request holds for each file, in order, one entry with the file's path and
\* blob sha, and filesCommitted is n.
C8_CallCounts ==
  \A p \in Procs :
    run[p].pc = "done" =>
      LET n == Len(run[p].files)
          fs == run[p].files
          items == log[p].treeReq.tree
      IN /\ log[p].blobCalls = n /\ log[p].treeCalls = 1
         /\ log[p].commitCalls = 1 /\ log[p].refCalls = 1
         /\ Len(items) = n
         /\ \A i \in 1..n :
              items[i] = [path |-> fs[i].path,
                          sha |-> BlobSha(fs[i].content, BlobEncoding(fs[i]))]
         /\ run[p].result.filesCommitted = n
         /\ run[p].result.commitSha = run[p].commitSha

\* C8 witness: a 2-file FileSet is published, filesCommitted is 2
C8_Witness ==
  \E p \in Procs :
    /\ run[p].pc = "done" /\ Len(run[p].files) = 2
    /\ run[p].result.filesCommitted = 2 /\ log[p].commitCalls = 1

(***************************************************************************)
(* Claims about the gatekeeper                                             *)
(***************************************************************************)
\* a request has been handled
Handled == audit.event # "none"

\* C9 (fail-closed authentication): when MCP_AUTH_TOKEN is not set (or is
\* empty), every handled request, whatever its credential headers, is denied
\* with status 500, is not authorized, touches no rate state and never reaches
\* the MCP server and its tools.
C9_FailClosed ==
  (~Truthy(authEnv) /\ Handled) =>
    /\ response.denied /\ response.status = 500
    /\ ~response.authorized /\ ~response.served
    /\ audit.event = "mcp.request.denied"
    /\ RATE = <<>>

\* C9 witness: no secret is configured and a request without any credential got 500
C9_Witness ==
  /\ authEnv = Undefined /\ Handled
  /\ request.authorization = Undefined /\ request.xMcpKey = Undefined
  /\ response.status = 500

\* the credential as the request carries it: what follows "Bearer " when the
\* Authorization header supplies it, otherwise the X-MCP-Key header
C10_RawCredential ==
  IF request.authorization # Undefined
     /\ StartsWith(request.authorization, BearerPrefix)
     /\ Slice(request.authorization, Len(BearerPrefix)) # <<>>
  THEN Slice(request.authorization, Len(BearerPrefix))
  ELSE request.xMcpKey

\* C10 (authentication by exact match), as claimed: with a configured secret
\* S a request is authorized exactly when the credential it carries is equal
\* to S, and every other request is rejected with 401.
C10_ExactMatch ==
  (Truthy(authEnv) /\ Handled) =>
    /\ response.authorized <=> (C10_RawCredential = authEnv)
    /\ ~response.authorized => (response.denied /\ response.status = 401)

\* the credential with the blanks around it removed: the bearer credential
\* when that leaves something, otherwise the X-MCP-Key header
C10_TrimmedCredential ==
  LET b == IF request.authorization # Undefined
              /\ StartsWith(request.authorization, BearerPrefix)
           THEN Trim(Slice(request.authorization, Len(BearerPrefix)))
           ELSE <<>>
  IN IF b # <<>> THEN b
     ELSE IF request.xMcpKey = Undefined THEN Undefined
     ELSE Trim(request.xMcpKey)

\* C10, amended: with a configured secret S a request is authorized exactly
\* when its credential, with surrounding blanks removed, is equal to S; every
\* other request (no credential, another value) is rejected with 401.
C10_TrimmedMatch ==
  (Truthy(authEnv) /\ Handled) =>
    /\ response.authorized <=> (C10_TrimmedCredential = authEnv)
    /\ ~response.authorized => (response.denied /\ response.status = 401)

\* C10 witness: "Bearer  sk", with two blanks, is authorized against the secret sk
C10_Witness ==
  /\ authEnv = SecretSk /\ Handled
  /\ request.authorization = BearerPrefix \o <<" ">> \o SecretSk
  /\ response.authorized /\ response.served

\* the limiter's decision on the last request that reached it
LastDecision == hist[Len(hist)]

\* the requests the limiter accepted so far
AcceptedSoFar == {i \in DOMAIN hist : hist[i].ok}

\* C11 (the pipeline runs only behind the gate): a tool callback comes into
\* flight only in the step that accepts its request, which carried the
\* configured secret and passed the limiter; a denied request gets the denial
\* response, brings no callback into flight and runs none; and there are
\* never more callbacks, in flight or ended, than accepted requests.
C11_GateBeforePipeline ==
  /\ [](/\ (tool.ran \/ flight # <<>>) => Truthy(authEnv)
        /\ Len(flight) + (IF tool.ran THEN 1 ELSE 0) <= Cardinality(AcceptedSoFar)
        /\ (Handled /\ response.denied) =>
             (~response.served /\ response.status \in {401, 429, 500}))
  /\ [][/\ Len(flight') > Len(flight) =>
            /\ response'.served /\ ~response'.denied
            /\ C10_TrimmedCredential' = authEnv
            /\ Len(hist') = Len(hist) + 1 /\ LastDecision'.ok
            /\ flight'[Len(flight')].name = request'.body.call
       /\ (response'.denied /\ (hist' # hist \/ request' # request
                                  \/ response' # response)) =>
            (flight' = flight /\ tool' = tool)]_vars

\* C11 witness: a call of create_store_and_deploy with the right credential
\* was stopped by the limiter while the callbacks of two accepted requests
\* were in flight
C11_Witness ==
  /\ request.body.call = "create_store_and_deploy"
  /\ response.denied /\ response.status = 429
  /\ Len(flight) = 2

\* the configured quota and window, as the environment gives them
ConfiguredMax == EnvNumber(rateEnv.max, DefaultRateLimitMax)

ConfiguredWindowSec == EnvNumber(rateEnv.windowSec, DefaultRateLimitWindowSec)

\* the limiter's decisions for key k since the start of k's current window
WindowDecisions(k) ==
  SelectSeq(hist, LAMBDA h : h.key = k /\ h.t >= RATE[k].windowStartMs)

\* C12 (rate-limit scenario): with a configured max M >= 1 and a window of
\* W >= 1 seconds (M = 3 and W = 60 among them), the first M requests of a key
\* inside one window are accepted with remaining M-1, M-2, ..., 0 in that
\* order, and every further request inside the window is refused with a
\* retryAfterSec between 1 and W.
C12_RateLimitScenario ==
  (rateEnv.max.set /\ ConfiguredMax >= 1 /\ ConfiguredWindowSec >= 1) =>
    \A k \in DOMAIN RATE :
      \A i \in 1..Len(WindowDecisions(k)) :
        LET d == WindowDecisions(k)[i]
        IN IF i <= ConfiguredMax
           THEN d.ok /\ d.remaining = ConfiguredMax - i
           ELSE ~d.ok /\ d.retryAfterSec >= 1 /\ d.retryAfterSec <= ConfiguredWindowSec

\* C12 witness: max 3 and window 60: three requests of one key got remaining
\* 2, 1, 0 and the fourth got 429
C12_Witness ==
  /\ rateEnv = EnvOf(3, 60)
  /\ Len(hist) = 4
  /\ \A i \in 1..4 : hist[i].key = hist[1].key
  /\ \A i \in 1..3 : hist[i].ok /\ hist[i].remaining = 3 - i
  /\ ~hist[4].ok
  /\ response.denied /\ response.status = 429 /\ response.retryAfter <= 60

\* the requests of key k accepted since the start of k's current window
AcceptedInWindow(k) ==
  Len(SelectSeq(WindowDecisions(k), LAMBDA h : h.ok))

\* C13 (rate bound for every configuration): for every key and every
\* configured max (any non-negative integer), the number of requests accepted
\* for the key within its window never exceeds the configured max.
C13_RateBound ==
  \A k \in DOMAIN RATE : AcceptedInWindow(k) <= ConfiguredMax

\* the length of the limiter's window in milliseconds (a configured window
\* under one second is run as one second)
WindowMs == Max(1, ConfiguredWindowSec) * 1000

\* C14 (window reset): when a request of key k arrives at least one window
\* length after k's windowStartMs, it is accepted, k's window starts at the
\* current time and k's count is 1, whatever the count was.
C14_WindowReset ==
  [][\A k \in DOMAIN RATE :
       (/\ hist' # hist
        /\ hist'[Len(hist')].key = k
        /\ now - RATE[k].windowStartMs >= WindowMs)
       => /\ hist'[Len(hist')].ok
          /\ response'.served /\ ~response'.denied
          /\ RATE'[k] = [windowStartMs |-> now, count |-> 1]]_vars

\* C14 witness: a key that was being refused is accepted again once its
\* window is over, with a new window and count 1
C14_Witness ==
  /\ Len(hist) >= 3
  /\ LET n == Len(hist)
     IN /\ hist[n].key = hist[n - 1].key
        /\ ~hist[n - 1].ok /\ hist[n].ok
        /\ hist[n].t - hist[n - 1].t >= WindowMs
        /\ RATE[hist[n].key] = [windowStartMs |-> hist[n].t, count |-> 1]
  /\ response.served

\* what was left of the key's window, in milliseconds, when the last request
\* reached the limiter
WindowLeftMs == RATE[LastDecision.key].windowStartMs + WindowMs - LastDecision.t

\* C15 (retry hint): a rate-limit rejection carries retryAfterSec equal to the
\* time left in the key's window rounded up to whole seconds, at least 1 and
\* at most the window length, and the 429 response has a Retry-After header
\* with the same value.
C15_RetryHint ==
  (response.denied /\ response.status = 429) =>
    /\ ~LastDecision.ok
    /\ LastDecision.retryAfterSec * 1000 >= WindowLeftMs
    /\ (LastDecision.retryAfterSec - 1) * 1000 < WindowLeftMs
    /\ LastDecision.retryAfterSec >= 1
    /\ LastDecision.retryAfterSec * 1000 <= WindowMs
    /\ response.retryAfter = LastDecision.retryAfterSec

\* C15 witness: a request is refused 1600 ms before the end of a two-second
\* window and Retry-After is 2
C15_Witness ==
  /\ rateEnv = EnvOf(1, 2)
  /\ response.denied /\ response.status = 429
  /\ WindowLeftMs = 1600
  /\ response.retryAfter = 2

\* the defaults the module's documentation gives
DocumentedMax == 3

DocumentedWindowSec == 3600

\* C16 (documented defaults): when MCP_RATE_LIMIT_MAX and
\* MCP_RATE_LIMIT_WINDOW_SEC are not set, the limiter behaves as max 3 per
\* window of 3600 seconds: the first three requests of a key in a window are
\* accepted with remaining 2, 1, 0 and the window they are told is 3600 s,
\* and a further one is refused.
C16_DocumentedDefaults ==
  (~rateEnv.max.set /\ ~rateEnv.windowSec.set) =>
    /\ \A k \in DOMAIN RATE :
         \A i \in 1..Len(WindowDecisions(k)) :
           LET d == WindowDecisions(k)[i]
           IN IF i <= DocumentedMax
              THEN d.ok /\ d.remaining = DocumentedMax - i
              ELSE ~d.ok
    /\ (audit.event = "mcp.request.accepted" /\ RATE[LastDecision.key].count = 1)
         => audit.resetInSec = DocumentedWindowSec

\* the owners the configuration permits, read off the configured text
ConfiguredAllowlist ==
  CASE ownersEnv = <<"a">> -> {<<"a">>}
    [] ownersEnv = <<"b", ",", " ", "\t", "a">> -> {<<"a">>, <<"b">>}
    [] OTHER -> {}

\* the tool callback that ended last is the one of name n
Invoked(n) == tool.ran /\ tool.name = n

\* C17 (allowlist before any side effect): a create_store_and_deploy
\* invocation whose git.owner is not in the configured allowlist fails (403,
\* or 500 when no allowlist is configured) before any call to the source host
\* or the hosting provider and before any tool event; when the owner is in the
\* allowlist the invocation proceeds to the pipeline.
C17_AllowlistFirst ==
  /\ Invoked("create_store_and_deploy") =>
       IF tool.owner \in ConfiguredAllowlist
       THEN /\ tool.statusCode = 0
            /\ "source" \in tool.calls
            /\ tool.events # <<>> /\ tool.events[1].event = "mcp.tool.start"
       ELSE /\ tool.threw
            /\ tool.statusCode = (IF Truthy(ownersEnv) THEN 403 ELSE 500)
            /\ tool.calls = {} /\ tool.events = <<>>
  /\ \A i \in DOMAIN flight :
       (flight[i].name = "create_store_and_deploy"
          /\ (flight[i].calls # {} \/ flight[i].events # <<>>))
         => flight[i].owner \in ConfiguredAllowlist

\* C17 witness: allowlist "a", create_store_and_deploy for owner "b": refused
\* with 403 and no call made
C17_Witness ==
  /\ ownersEnv = <<"a">>
  /\ Invoked("create_store_and_deploy") /\ tool.owner = <<"b">>
  /\ tool.threw /\ tool.statusCode = 403 /\ tool.calls = {}

\* the tool handler threw an error of assertOwnerAllowed
OwnerRefusal == tool.threw /\ tool.statusCode \in {403, 500}

\* C18 (allowlist only on mutating operations): no invocation of a read-only
\* or dry-run tool (describe_*, compare_templates, plan_storefront) is
\* rejected because of the owner allowlist or of a missing allowlist.
C18_ReadOnlyNotAllowlisted ==
  (tool.ran /\ tool.name \in ReadOnlyTools \cup {"plan_storefront"}) => ~OwnerRefusal

\* the error of the gate for the last request is the one its cause calls for
GateDenialStatus ==
  /\ ~Truthy(authEnv) => (response.denied /\ response.status = 500)
  /\ (Truthy(authEnv) /\ C10_TrimmedCredential # authEnv)
       => (response.denied /\ response.status = 401)
  /\ (Truthy(authEnv) /\ C10_TrimmedCredential = authEnv /\ ~LastDecision.ok)
       => (response.denied /\ response.status = 429)
  /\ response.denied => response.status \in {401, 429, 500}

\* C19 (denial status mapping): a missing secret or a missing allowlist gives
\* 500, a missing or wrong credential 401, an exceeded quota 429, an owner
\* outside the allowlist 403, and the response of the denied request reports
\* that status.
C19_DenialStatus ==
  Handled =>
    /\ GateDenialStatus
    /\ \A n \in OwnerTools :
         (Invoked(n) /\ tool.owner \notin ConfiguredAllowlist) =>
           /\ tool.statusCode = (IF Truthy(ownersEnv) THEN 403 ELSE 500)
           /\ tool.status = tool.statusCode

\* C20 (audit completeness): every decision of the gatekeeper is logged with
\* the request's correlation identifier: an accepted request has an accepted
\* event, a denied request a denied event with its status and message, and a
\* tool invocation refused for its owner (or for a missing allowlist) has a
\* denied or error event too.
C20_AuditComplete ==
  Handled =>
    /\ audit.requestId = RequestId(request)
    /\ response.served => audit.event = "mcp.request.accepted"
    /\ response.denied =>
         /\ audit.event = "mcp.request.denied"
         /\ audit.status = response.status /\ audit.message = response.message
    /\ OwnerRefusal =>
         \E i \in DOMAIN tool.events :
           /\ tool.events[i].event \in {"mcp.request.denied", "mcp.tool.error"}
           /\ tool.events[i].requestId = tool.requestId

\* C21 (logging never blocks the request path): whether or not writing an
\* audit event fails, a request with the right credential and within its quota
\* is served, a denied request gets its denial status, and no error of
\* auditLog reaches the handler's caller.
C21_LoggingNeverBlocks ==
  response # NoResponse =>
    /\ ~response.crashed
    /\ IF C10_TrimmedCredential # authEnv
       THEN response.denied /\ response.status = 401
       ELSE IF LastDecision.ok
       THEN response.served /\ ~response.denied
       ELSE response.denied /\ response.status = 429

PathsOf(files) == {files[i].path : i \in 1..Len(files)}

\* the file of a path-unique list at a path
FileAt(files, path) == files[CHOOSE i \in 1..Len(files) : files[i].path = path]

\* C22 (merge, extension wins): mergeFiles(A, B) has every path of A and B
\* exactly once and no other path; at a path of B the file (content and
\* encoding) is B's, at a path of A only it is A's.
C22_MergeExtensionWins ==
  ret # <<>> =>
    LET m == ret[1]
    IN /\ PathsOf(m) = PathsOf(arg.base) \cup PathsOf(arg.override)
       /\ Len(m) = Cardinality(PathsOf(m))
       /\ \A i \in 1..Len(m) :
            IF m[i].path \in PathsOf(arg.override)
            THEN m[i] = FileAt(arg.override, m[i].path)
            ELSE m[i] = FileAt(arg.base, m[i].path)

\* C22 witness: a path of both lists with different contents, and a path of
\* the base only, have been merged
C22_Witness ==
  /\ ret # <<>>
  /\ \E p \in PathsOf(arg.base) \cap PathsOf(arg.override) :
       /\ FileAt(arg.base, p).content # FileAt(arg.override, p).content
       /\ FileAt(ret[1], p) = FileAt(arg.override, p)
  /\ PathsOf(arg.base) \ PathsOf(arg.override) # {}

Extended == kind = "vue-starter-template-extended"

\* the files of directory f whose download did not fail, in listing order
Downloaded(f) ==
  LET got == SelectSeq(source[f],
                       LAMBDA item : item.op = "file" /\ <<f, item.path>> \notin skipped)
  IN [i \in 1..Len(got) |->
        [path |-> got[i].path,
         content |-> IF got[i].binary THEN Base64(got[i].content) ELSE got[i].content,
         encoding |-> IF got[i].binary THEN "base64" ELSE "utf-8"]]

\* the downloaded base files with the extension's file at a path of both,
\* then the extension's other files; the reference removed from nuxt.config.ts
ExpectedFiles ==
  LET b == Downloaded("base")
      e == Downloaded("ext")
      over == [i \in 1..Len(b) |->
                 IF b[i].path \in PathsOf(e) THEN FileAt(e, b[i].path) ELSE b[i]]
      m == over \o SelectSeq(e, LAMBDA file : file.path \notin PathsOf(b))
  IN [i \in 1..Len(m) |->
        IF m[i].path = "nuxt.config.ts"
        THEN [m[i] EXCEPT !.content = FixNuxtConfig(m[i].content)] ELSE m[i]]

\* C23 (concurrent fetch, then merge): for the extended kind a FileSet is
\* returned only when both fetches have completed; when a fetch has failed no
\* FileSet is returned; and the FileSet returned is the one fixed by the two
\* directories and the downloads that failed, whatever the order in which the
\* requests of the two fetches were served.
C23_FetchThenMerge ==
  /\ (resolved.status = "ok" /\ Extended) =>
       /\ \A f \in Fetchers : fetches[f].status = "done"
       /\ resolved.files = ExpectedFiles
  /\ resolved.status = "failed" => resolved.files = <<>>
  /\ (\E f \in Fetchers : fetches[f].status = "failed") => resolved.status # "ok"

\* C23 witness: both fetches completed, each with files, and the merged set
\* has the extension's app.vue
C23_Witness ==
  /\ Extended /\ resolved.status = "ok"
  /\ fetches["base"].files # <<>> /\ fetches["ext"].files # <<>>
  /\ \E i \in 1..Len(resolved.files) :
       resolved.files[i].path = "app.vue" /\ resolved.files[i].content = <<"a", "2">>

\* C24 (best-effort leaf fetch): a file, text or binary, whose download
\* failed is left out and the fetch goes on: a completed fetch holds exactly
\* the files whose download succeeded, and only a failed directory listing,
\* at any depth, ends a fetch; a failed listing fails the whole resolve.
C24_BestEffortLeaf ==
  /\ \A f \in Fetchers :
       /\ fetches[f].status = "done" => fetches[f].files = Downloaded(f)
       /\ fetches[f].status = "failed" => source[f][fetches[f].idx].op = "list"
  /\ (\E f \in Fetchers : fetches[f].status = "failed") => resolved.status # "ok"
  /\ (resolved.status = "ok" /\ ~Extended) => resolved.files = Downloaded("base")
  /\ resolved.status = "ok" =>
       \A f \in Fetchers :
         \A p \in PathsOf(fetches[f].files) : <<f, p>> \notin skipped

\* C24 witness: the download of a binary file of the base and of a text file
\* of the extension failed and the resolve succeeded with the other files
C24_Witness ==
  /\ resolved.status = "ok"
  /\ {<<"base", "public/favicon.ico">>, <<"ext", "app.vue">>} \subseteq skipped
  /\ resolved.files # <<>>

\* every file of a directory, downloaded
AllFiles(walk) ==
  LET items == SelectSeq(walk, LAMBDA item : item.op = "file")
  IN [i \in 1..Len(items) |->
        [path |-> items[i].path,
         content |-> IF items[i].binary THEN Base64(items[i].content)
                     ELSE items[i].content,
         encoding |-> IF items[i].binary THEN "base64" ELSE "utf-8"]]

\* what fetchTemplate returns for the directories src when no file is skipped
CompleteResult(k, src) ==
  [status |-> "ok", template |-> k, ref |-> "main",
   files |-> IF k = "vue-starter-template-extended"
             THEN FixUp(MergeFiles(AllFiles(src.base), AllFiles(src.ext)))
             ELSE AllFiles(src.base)]

\* a request can fetch the file: a binary file by its download_url, another
\* file by the content in the answer of the contents API or its download_url
CanFetch(item) ==
  IF item.binary THEN item.url
  ELSE (item.inline /\ item.content # <<>>) \/ item.url

\* the files skipped because a request for them was made and failed
DownloadFailed ==
  {sk \in skipped :
     \E i \in 1..Len(source[sk[1]]) :
       /\ source[sk[1]][i].path = sk[2]
       /\ source[sk[1]][i].op = "file"
       /\ CanFetch(source[sk[1]][i])}

\* C25 (skips are observable): when a file was skipped because its download
\* failed, the result returned tells the caller that the FileSet is
\* incomplete: it is not a result that a resolve without any skip returns.
C25_SkipsObservable ==
  (resolved.status = "ok" /\ DownloadFailed # {}) =>
    \A src \in Sources :
      (\A f \in Fetchers : \A i \in 1..Len(src[f]) :
         src[f][i].op = "file" => CanFetch(src[f][i]))
        => resolved # CompleteResult(kind, src)

\* C26 (post-merge fix-up): for the extended kind, the nuxt.config.ts of the
\* FileSet fetchTemplate returns has no reference to the base template by
\* the local path ../vue-starter-template, and every other file is as the
\* merge left it.
C26_FixUp ==
  (resolved.status = "ok" /\ Extended) =>
    LET m == MergeFiles(fetches["base"].files, fetches["ext"].files)
    IN /\ Len(resolved.files) = Len(m)
       /\ \A i \in 1..Len(m) :
            IF m[i].path = "nuxt.config.ts"
            THEN \A j \in 1..Len(resolved.files[i].content) :
                   MatchText(resolved.files[i].content, j, BasePathRef) = 0
            ELSE resolved.files[i] = m[i]

(***************************************************************************)
(* Claims about branding                                                   *)
(***************************************************************************)
\* the theme file applyBranding works on: the first uno.config.ts of the
\* FileSet, 0 when there is none
ThemeIndex == FirstIndex({i \in 1..Len(arg.files) : IsUnoConfig(arg.files[i])})

\* the tokens the BrandingSpec asks to set
Requested == {arg.branding.colors[i][1] : i \in 1..Len(arg.branding.colors)}

\* C27 (branding no-op): applyBranding with colors = {} and no logo returns
\* no modified path and no warning and leaves the FileSet as it was: the
\* same files with the same paths, contents and encodings in the same
\* order.
C27_BrandingNoOp ==
  (ret # <<>> /\ arg.branding.colors = <<>> /\ arg.branding.logoSvg = Undefined) =>
    /\ ret[1].modifiedFiles = <<>>
    /\ ret[1].warnings = <<>>
    /\ ret[1].files = arg.files

\* the no-op call has returned on a FileSet that has a theme file with a
\* colors block and a logo file
C27_Witness ==
  /\ ret # <<>>
  /\ arg.branding.colors = <<>>
  /\ arg.branding.logoSvg = Undefined
  /\ ThemeIndex # 0
  /\ BlockMatch(arg.files[ThemeIndex].content).end # 0
  /\ \E i \in 1..Len(arg.files) : IsLogo(arg.files[i])

\* the theme file has an assignment to the token: the token, then a colon
Assigned(content, token) ==
  \E i \in 1..Len(content) :
    /\ MatchText(content, i, EscapeRegex(token)) # 0
    /\ At(content, SkipSpace(content, MatchText(content, i, EscapeRegex(token)))) = ":"

\* the assignments of the theme file: a key of word characters and the
\* quoted value behind its colon
Bindings(content) ==
  LET KeyEnd(i) == i + WordRun(From(content, i))
      Quote(i) == SkipSpace(content, SkipSpace(content, KeyEnd(i)) + 1)
      keys == {i \in 1..Len(content) :
                 /\ KeyEnd(i) > i
                 /\ WordRun(<<At(content, i - 1)>>) = 0
                 /\ At(content, SkipSpace(content, KeyEnd(i))) = ":"
                 /\ QuotedEnd(content, Quote(i)) # 0}
  IN {<<SubSeq(content, i, KeyEnd(i) - 1),
        SubSeq(content, Quote(i) + 1, QuotedEnd(content, Quote(i)) - 1)>> :
        i \in keys}

\* C28 (branding with an absent token): when the tokens of the BrandingSpec
\* have no assignment in the theme file (and no logo is given), applyBranding
\* raises a warning, the FileSet has as many files as before, and the theme
\* file binds every token to the value it had.
C28_AbsentTokenWarns ==
  (/\ ret # <<>>
   /\ ThemeIndex # 0
   /\ Requested # {}
   /\ \A token \in Requested : ~Assigned(arg.files[ThemeIndex].content, token)
   /\ ~Truthy(arg.branding.logoSvg)) =>
    /\ ret[1].warnings # <<>>
    /\ Len(ret[1].files) = Len(arg.files)
    /\ Bindings(ret[1].files[ThemeIndex].content)
         = Bindings(arg.files[ThemeIndex].content)

\* the indices of the theme file inside the value of an assignment to a
\* requested token: between the quotes of the token's value or of the
\* DEFAULT value of its nested object
ValueIndices(content, tokens) ==
  UNION {LET m == IF nested THEN NestedMatch(content, j, token)
                  ELSE SimpleMatch(content, j, token)
         IN IF m.end = 0 THEN {} ELSE (m.quote + 1)..(m.end - 1) :
           j \in 1..Len(content), token \in tokens, nested \in BOOLEAN}

\* old from index i on and new from index j on are the same text but for
\* what stands at the indices values of old
RECURSIVE SameOutside(_, _, _, _, _)
SameOutside(old, new, values, i, j) ==
  LET \* the first index from i on inside a value, and the first behind it
      v == CHOOSE x \in i..(Len(old) + 1) :
             /\ x \in values \/ x = Len(old) + 1
             /\ \A y \in i..(x - 1) : y \notin values
      e == CHOOSE x \in (v + 1)..(Len(old) + 1) :
             /\ x \notin values
             /\ \A y \in v..(x - 1) : y \in values
  IN /\ j + (v - i) - 1 <= Len(new)
     /\ SubSeq(new, j, j + (v - i) - 1) = SubSeq(old, i, v - 1)
     /\ IF v = Len(old) + 1 THEN j + (v - i) = Len(new) + 1
        ELSE \E j2 \in (j + (v - i))..(Len(new) + 1) :
               SameOutside(old, new, values, e, j2)

\* C29 (surgical rewrite): after applyBranding the theme file differs from
\* what it was only inside the values of the assignments to the requested
\* tokens, everything else of it (spacing, commas, quotes, the delimiters of
\* the colors block) is as before, and every file that is neither the theme
\* file nor a logo file is unchanged.
C29_SurgicalRewrite ==
  (ret # <<>> /\ ThemeIndex # 0) =>
    LET old == arg.files[ThemeIndex].content
        new == ret[1].files[ThemeIndex].content
    IN /\ SameOutside(old, new, ValueIndices(old, Requested), 1, 1)
       /\ \A i \in 1..Len(arg.files) :
            (i # ThemeIndex /\ ~IsLogo(arg.files[i])) =>
              ret[1].files[i] = arg.files[i]

\* the indices of the files of a FileSet at the conventional logo path
AtLogoPath(files) == {i \in 1..Len(files) : files[i].path = LogoPath}

\* C30 (logo handling): after applyBranding with a logo, the FileSet has
\* exactly one file at public/logo.svg, its content is the logo given, and
\* the FileSet has as many files as before when it had a file at that path
\* and one more otherwise.
C30_LogoAtConventionalPath ==
  (ret # <<>> /\ Truthy(arg.branding.logoSvg)) =>
    /\ Cardinality(AtLogoPath(ret[1].files)) = 1
    /\ \A i \in AtLogoPath(ret[1].files) :
         ret[1].files[i].content = arg.branding.logoSvg
    /\ Len(ret[1].files) =
         Len(arg.files) + (IF AtLogoPath(arg.files) # {} THEN 0 ELSE 1)

(***************************************************************************)
(* Claims about provisioning                                               *)
(***************************************************************************)
\* how often the execution of p issued the call
Issued(p, call) ==
  Cardinality({i \in 1..Len(vcRun[p].calls) : vcRun[p].calls[i] = call})

\* C31 (project ensure is idempotent): an execution issues the project
\* creation call only after its lookup by name reported the project absent,
\* and at most once; an execution whose lookup found the project returns it
\* with created false and issues no call but the lookup and the deployment
\* trigger (no create, update, delete or relink); over all executions the
\* project is created at most once.
C31_EnsureIdempotent ==
  /\ vcProject.creations <= 1
  /\ \A p \in Procs :
       /\ Issued(p, "POST project") <= 1
       /\ Issued(p, "POST project") = 1 => vcRun[p].found = "absent"
       /\ vcRun[p].found = "exists" =>
            /\ \A i \in 1..Len(vcRun[p].calls) :
                 vcRun[p].calls[i] \in {"GET project", "POST deployment"}
            /\ vcRun[p].pc \in {"triggerDeployment", "done"} =>
                 /\ ~vcRun[p].project.created
                 /\ vcRun[p].project.projectId = vcProject.id

\* two executions have returned: one created the project, the other found
\* and reused it
C31_Witness ==
  \E p, q \in Procs :
    /\ vcRun[p].pc = "done" /\ vcRun[p].project.created
    /\ vcRun[q].pc = "done" /\ vcRun[q].found = "exists"
    /\ ~vcRun[q].project.created

\* C32 (deployment trigger): an execution calls the deployment trigger at
\* most once, only with a repository configured and only as its last call,
\* after ensureProject returned a project; whatever the trigger answers the
\* operation returns the project, with deployment null when the trigger
\* failed; an execution in which ensuring the project failed has failed
\* and has made no trigger call.
C32_DeploymentTrigger ==
  \A p \in Procs :
    LET r == vcRun[p]
        triggers == Issued(p, "POST deployment")
    IN /\ triggers <= 1
       /\ triggers = 1 =>
            /\ r.git
            /\ r.project.projectId # 0
            /\ r.calls[Len(r.calls)] = "POST deployment"
            /\ r.pc = "done"
       /\ r.pc = "failed" => triggers = 0 /\ ~r.deployment
       /\ r.pc = "done" =>
            /\ r.project.projectId # 0
            /\ triggers = (IF r.git THEN 1 ELSE 0)
            /\ r.deployment => triggers = 1

\* an execution created the project, its trigger failed, and it returned
\* the project with deployment null
C32_Witness ==
  \E p \in Procs :
    /\ vcRun[p].pc = "done"
    /\ vcRun[p].project.created
    /\ Issued(p, "POST deployment") = 1
    /\ ~vcRun[p].deployment

\* the mutating calls of the request p so far: at most one repository
\* creation, one blob creation for each file up to the one the loop is at,
\* one tree, one commit and one ref call, one project creation and one
\* deployment trigger
CallsOnce(p) ==
  /\ log[p].repoCalls <= 1
  /\ log[p].blobCalls <= Len(run[p].files)
  /\ log[p].blobCalls =
       Len(run[p].treeItems) + (IF log[p].failed = "blob" THEN 1 ELSE 0)
  /\ log[p].treeCalls <= 1
  /\ log[p].commitCalls <= 1
  /\ log[p].refCalls <= 1
  /\ Issued(p, "POST project") <= 1
  /\ Issued(p, "POST deployment") <= 1

\* C33 (no automatic retry): within one publish and one provisioning
\* execution every mutating call is made at most once (the blob call once
\* for each file), and an execution that failed at a call issues no call
\* any more.
C33_NoRetry ==
  [][\A p \in Procs :
       /\ CallsOnce(p)'
       /\ run[p].pc = "failed" => (run'[p] = run[p] /\ log'[p] = log[p])
       /\ vcRun[p].pc = "failed" => vcRun'[p] = vcRun[p]]_vars

\* the publish failed at the blob of its second file and the deployment
\* trigger failed after the project was created
C33_Witness ==
  \E p \in Procs :
    /\ run[p].pc = "failed" /\ log[p].failed = "blob" /\ log[p].blobCalls = 2
    /\ vcRun[p].pc = "done" /\ vcRun[p].project.created
    /\ Issued(p, "POST deployment") = 1 /\ ~vcRun[p].deployment

(***************************************************************************)
(* Claims about the tools                                                  *)
(***************************************************************************)
\* C34 (plan_storefront has no side effects): whatever its input and
\* outcome, a plan_storefront invocation makes no mutating call to the
\* source host or the hosting provider: what it calls, if anything, are the
\* reads of the template.
C34_PlanHasNoSideEffects ==
  /\ tool.name = "plan_storefront" => tool.calls \subseteq {"source"}
  /\ \A i \in DOMAIN flight :
       flight[i].name = "plan_storefront" => flight[i].calls \subseteq {"source"}

\* a plan_storefront invocation passed the owner check, read the template
\* and returned its plan
C34_Witness ==
  /\ tool.name = "plan_storefront" /\ tool.ran /\ ~tool.threw
  /\ "source" \in tool.calls

\* C35 (tool audit ordering): a create_store_and_deploy invocation that
\* passed the owner check has logged the tool-start event, and nothing
\* else, while its pipeline runs and other requests are served in between;
\* once the pipeline ended, at whatever component, it has logged after the
\* start event exactly one terminal event: success if the pipeline
\* returned, error if it failed, and exactly then the caller has received
\* the error; before the start event the pipeline has made no call.
C35_ToolAuditOrdering ==
  /\ (tool.name = "create_store_and_deploy" /\ tool.ran /\ ~OwnerRefusal) =>
       /\ Len(tool.events) = 2
       /\ tool.events[1].event = "mcp.tool.start"
       /\ tool.events[2].event \in {"mcp.tool.success", "mcp.tool.error"}
       /\ tool.events[2].event = "mcp.tool.error" <=> tool.threw
       /\ \A k \in 1..2 : tool.events[k].requestId = tool.requestId
  /\ \A i \in DOMAIN flight :
       flight[i].name = "create_store_and_deploy" =>
         IF flight[i].pc = "await"
         THEN /\ Len(flight[i].events) = 1
              /\ flight[i].events[1].event = "mcp.tool.start"
              /\ flight[i].events[1].requestId = flight[i].requestId
         ELSE flight[i].events = <<>> /\ flight[i].calls = {}

\* C35 witness: the pipeline of one invocation failed in the publisher,
\* after calls to the repository, while another invocation, accepted after
\* it, awaits its pipeline: the start and the error event of the first are
\* logged and its caller got the error
C35_Witness ==
  /\ tool.name = "create_store_and_deploy" /\ tool.ran /\ ~OwnerRefusal
  /\ tool.threw /\ "repository" \in tool.calls
  /\ tool.events[2].event = "mcp.tool.error"
  /\ \E i \in DOMAIN flight :
       flight[i].name = "create_store_and_deploy" /\ flight[i].pc = "await"

\* C36 (ensure repository): a request issues the repository-creation call
\* only when the repository does not exist, and its created flag becomes
\* true exactly in the step in which its call created the repository.
C36_EnsureRepo ==
  [][\A p \in Procs :
       /\ log'[p].repoCalls > log[p].repoCalls => ~repo
       /\ (run'[p].created /\ ~run[p].created) <=>
            (log'[p].repoCalls > log[p].repoCalls /\ ~repo /\ repo')]_vars

\* no two files of the list have the same path
UniquePaths(files) == \A i, j \in 1..Len(files) : files[i].path = files[j].path => i = j

\* C37 (path uniqueness): the FileSet fetchTemplate returns for two
\* directories without repeated paths has no repeated path, and
\* applyBranding leaves a FileSet without repeated paths so, whatever the
\* BrandingOptions.
C37_PathsUnique ==
  /\ resolved.status = "ok" => UniquePaths(resolved.files)
  /\ (ret # <<>> /\ UniquePaths(arg.files)) => UniquePaths(ret[1].files)

\* C37 witness: a logo was applied to a FileSet that holds a logo and a
\* theme file, and colours were written to the theme file
C37_Witness ==
  /\ ret # <<>>
  /\ Truthy(arg.branding.logoSvg)
  /\ LogoPath \in PathsOf(arg.files)
  /\ ret[1].files # arg.files
  /\ Len(ret[1].modifiedFiles) = 2

\* C38 (authentication failures do not consume quota): a request that
\* assertAuthorized rejects, with 401 or 500, leaves the entry of every key
\* of the rate table as it was.
C38_AuthFailureNoQuota ==
  [][(~response'.authorized /\ response'.status \in {401, 500}) => RATE' = RATE]_vars

\* C38 witness: a request was rejected with 401 while a key had used quota
C38_Witness ==
  /\ response.denied /\ ~response.authorized /\ response.status = 401
  /\ \E k \in DOMAIN RATE : RATE[k].count >= 1

\* C39 (a rate-limited request changes nothing): a request rejected with
\* 429 leaves the whole rate table, its key's windowStartMs and count
\* included, as it was; no request changes the entry of another key; and a
\* request for a key whose window has elapsed is accepted, however many
\* requests were rejected in that window.
C39_RejectionChangesNothing ==
  [][Len(hist') > Len(hist) =>
       LET d == hist'[Len(hist')]
       IN /\ ~d.ok => RATE' = RATE
          /\ \A k \in DOMAIN RATE \ {d.key} : k \in DOMAIN RATE' /\ RATE'[k] = RATE[k]
          /\ (d.key \in DOMAIN RATE /\ now - RATE[d.key].windowStartMs >= WindowMs)
               => d.ok]_vars

\* C39 witness: a key was rejected and, after its window, accepted again,
\* while another key has an entry
C39_Witness ==
  /\ \E i, j \in 1..Len(hist) :
       /\ i < j
       /\ hist[i].key = hist[j].key
       /\ ~hist[i].ok /\ hist[j].ok
       /\ RATE[hist[j].key].windowStartMs = hist[j].t
  /\ Cardinality(DOMAIN RATE) > 1

(***************************************************************************)
(* Claims about termination                                                *)
(***************************************************************************)
\* the position of an execution in the order of the stages of
\* ensureRepoAndPush; the blob stage counts the blobs created
Progress(r) ==
  CASE r.pc = "idle"       -> 0
    [] r.pc = "repoExists" -> 1
    [] r.pc = "getUser"    -> 2
    [] r.pc = "createRepo" -> 3
    [] r.pc = "getRef"     -> 4
    [] r.pc = "getCommit"  -> 5
    [] r.pc = "blob"       -> 6 + Len(r.treeItems)
    [] r.pc = "tree"       -> 7 + MaxFiles
    [] r.pc = "commit"     -> 8 + MaxFiles
    [] r.pc = "ref"        -> 9 + MaxFiles
    [] OTHER               -> 10 + MaxFiles

Terminal(r) == r.pc \in {"done", "failed"}

\* C40 (publish terminates): when every call returns, an execution that
\* was started ends, published or failed at one stage; it issues at most
\* one blob call for each of its n files and at most one call of each other
\* kind; and every step takes it to a later stage or the next file, so no
\* stage is repeated.
C40_PublishTerminates ==
  /\ \A p \in {"p1"} : (run[p].pc # "idle") ~> Terminal(run[p])
  /\ [](\A p \in Procs :
          /\ log[p].blobCalls <= Len(run[p].files)
          /\ log[p].repoCalls <= 1 /\ log[p].treeCalls <= 1
          /\ log[p].commitCalls <= 1 /\ log[p].refCalls <= 1)
  /\ [][\A p \in Procs :
          run'[p] # run[p] => Progress(run'[p]) > Progress(run[p])]_vars

\* C40 witness: an execution on the largest FileSet has published after one
\* blob call for each file
C40_Witness ==
  /\ run["p1"].pc = "done"
  /\ Len(run["p1"].files) = MaxFiles
  /\ log["p1"].blobCalls = MaxFiles
  /\ run["p1"].result.ok

====
